---- MODULE Spec2Model ----
(***************************************************************************)
(* A model of pymatgen.io.validation.check_incar: the generic comparator   *)
(* BaseValidator.check_parameter, the catalog sweep and the twelve rule     *)
(* groups that _check_incar runs over one finished VASP calculation.        *)
(*                                                                          *)
(* Python values are records [t, v, s, l]: t is the Python type, v the      *)
(* number (fixed point, in units of 1/Scale, for int, bool and float        *)
(* alike), s the text of a str, l the items of a list.  A dict is a         *)
(* function whose DOMAIN is the set of keys present.                        *)
(***************************************************************************)
EXTENDS Integers, Sequences, FiniteSets, Bags, TLC

(***************************************************************************)
(* Numbers                                                                  *)
(***************************************************************************)
\* Resolution of the fixed-point numbers: 1 unit = 1e-5.
Scale == 10 ^ 5

\* float("inf") (np.inf), larger than every other number of the model.
InfUnits == 2 * (10 ^ 9)

Abs(x) == IF x < 0 THEN -x ELSE x

Max(a, b) == IF a >= b THEN a ELSE b

Min(a, b) == IF a <= b THEN a ELSE b

\* floor(a * b) for fixed-point a, b >= 0 (a below 0.2), without leaving
\* the 32-bit integers.
MulFloor(a, b) == a * (b \div Scale) + ((a * (b % Scale)) \div Scale)

\* mant * 10^(-exp) in units, e.g. Dec(25, 2) is 0.25.
Dec(mant, exp) == (mant * Scale) \div (10 ^ exp)

(***************************************************************************)
(* Python values                                                            *)
(***************************************************************************)
PyInt(n) == [t |-> "int", v |-> n * Scale, s |-> "", l |-> <<>>]

PyFloat(units) == [t |-> "float", v |-> units, s |-> "", l |-> <<>>]

PyBool(b) == [t |-> "bool", v |-> IF b THEN Scale ELSE 0, s |-> "", l |-> <<>>]

PyStr(x) == [t |-> "str", v |-> 0, s |-> x, l |-> <<>>]

PyList(items) == [t |-> "list", v |-> 0, s |-> "", l |-> items]

PyNone == [t |-> "none", v |-> 0, s |-> "", l |-> <<>>]

PyInf == PyFloat(InfUnits)

PyTrue == PyBool(TRUE)

PyFalse == PyBool(FALSE)

\* int and bool (a subclass of int).
IsIntegral(x) == x.t \in {"int", "bool"}

\* isinstance(x, float)
IsFloat(x) == x.t = "float"

IsNumber(x) == IsIntegral(x) \/ IsFloat(x)

\* bool(x): the truth value Python gives a value.
Truthy(x) ==
    CASE IsNumber(x) -> x.v # 0
      [] x.t = "str" -> x.s # ""
      [] x.t = "list" -> x.l # <<>>
      [] OTHER -> FALSE

\* dict.get(key, default)
Get(d, key, default) == IF key \in DOMAIN d THEN d[key] ELSE default

\* d[key] = value
Put(d, key, value) ==
    [k \in (DOMAIN d) \cup {key} |-> IF k = key THEN value ELSE d[k]]

\* del d[key]
Del(d, key) == [k \in (DOMAIN d) \ {key} |-> d[k]]

(***************************************************************************)
(* Strings: the texts of the model in lexicographic order, and the          *)
(* substring relation between them.                                         *)
(***************************************************************************)
StrVocab ==
    <<"--", "1", "<number>", "A", "ACCURA", "ACCURATE", "AUTO", "Accurate", "Auto", "FALSE",
      "False", "HIGH", "LEGACY", "MIDGAP", "NONE", "NORMAL", "None", "Normal", "R2SCAN",
      "TRUE", "True">>

StrRank(x) == IF \E i \in 1..Len(StrVocab) : StrVocab[i] = x
              THEN CHOOSE i \in 1..Len(StrVocab) : StrVocab[i] = x
              ELSE 0

\* a in b, for two str of the vocabulary
IsSubstring(a, b) ==
    \/ a = b
    \/ a = ""
    \/ <<a, b>> \in {<<"A", "ACCURA">>, <<"A", "ACCURATE">>, <<"A", "AUTO">>,
                     <<"A", "Accurate">>, <<"A", "Auto">>, <<"A", "FALSE">>,
                     <<"A", "LEGACY">>, <<"A", "MIDGAP">>, <<"A", "NORMAL">>,
                     <<"A", "R2SCAN">>, <<"ACCURA", "ACCURATE">>}

(***************************************************************************)
(* Python's comparisons.  A rich-comparison method called directly          *)
(* (x.__le__(y)) answers "NotImplemented" when the left operand's type does *)
(* not know the right operand's type; the == operator falls back to         *)
(* identity instead.                                                        *)
(***************************************************************************)
\* The order of two numbers under a relational operation.
NumRel(op, left, right) ==
    CASE op = "==" -> left = right
      [] op = ">" -> left > right
      [] op = ">=" -> left >= right
      [] op = "<" -> left < right
      [] op = "<=" -> left <= right

AsResult(b) == IF b THEN "True" ELSE "False"

\* x == y for two list items (numbers, str or None).
ItemEq(x, y) ==
    \/ IsNumber(x) /\ IsNumber(y) /\ x.v = y.v
    \/ x.t = "str" /\ y.t = "str" /\ x.s = y.s
    \/ x.t = "none" /\ y.t = "none"

\* The first index where two lists differ (0: none in the common prefix).
FirstDiff(a, b) ==
    LET n == Min(Len(a), Len(b))
        D == {i \in 1..n : ~ItemEq(a[i], b[i])}
    IN IF D = {} THEN 0 ELSE CHOOSE i \in D : \A j \in D : i <= j

\* list.__lt__ and friends: the lengths decide when no item differs, else
\* the first differing items do (TypeError when they have no order).
ListRel(op, a, b) ==
    LET i == FirstDiff(a, b)
    IN IF i = 0 THEN AsResult(NumRel(op, Len(a), Len(b)))
       ELSE IF IsNumber(a[i]) /\ IsNumber(b[i]) THEN AsResult(NumRel(op, a[i].v, b[i].v))
       ELSE IF a[i].t = "str" /\ b[i].t = "str"
            THEN AsResult(NumRel(op, StrRank(a[i].s), StrRank(b[i].s)))
       ELSE "TypeError"

\* a == b, the operator (with reflection and the identity fallback).
PyEq(a, b) ==
    CASE IsNumber(a) /\ IsNumber(b) -> a.v = b.v
      [] a.t = "str" /\ b.t = "str" -> a.s = b.s
      [] a.t = "none" /\ b.t = "none" -> TRUE
      [] a.t = "list" /\ b.t = "list" ->
            /\ Len(a.l) = Len(b.l)
            /\ \A i \in 1..Len(a.l) : ItemEq(a.l[i], b.l[i])
      [] OTHER -> FALSE

RelationalOps == {"==", ">", ">=", "<", "<="}

\* BaseValidator.operations: the method each operation names.
operations ==
    [op \in RelationalOps \cup {"in", "approx"} |->
        CASE op = "==" -> "__eq__"
          [] op = ">" -> "__gt__"
          [] op = ">=" -> "__ge__"
          [] op = "<" -> "__lt__"
          [] op = "<=" -> "__le__"
          [] op = "in" -> "__contains__"
          [] op = "approx" -> "__eq__"]

MethodOp(method) ==
    CASE method = "__eq__" -> "=="
      [] method = "__gt__" -> ">"
      [] method = "__ge__" -> ">="
      [] method = "__lt__" -> "<"
      [] method = "__le__" -> "<="

\* left.__getattribute__(method)(right): "True", "False", "NotImplemented",
\* or the exception raised.
PyMethod(left, method, right) ==
    IF method = "__contains__"
    THEN CASE left.t = "list" ->
                AsResult(\E i \in 1..Len(left.l) : PyEq(left.l[i], right))
           [] left.t = "str" ->
                IF right.t = "str" THEN AsResult(IsSubstring(right.s, left.s))
                ELSE "TypeError"
           [] OTHER -> "AttributeError"
    ELSE CASE IsIntegral(left) ->
                IF IsIntegral(right)
                THEN AsResult(NumRel(MethodOp(method), left.v, right.v))
                ELSE "NotImplemented"
           [] IsFloat(left) ->
                IF IsNumber(right)
                THEN AsResult(NumRel(MethodOp(method), left.v, right.v))
                ELSE "NotImplemented"
           [] left.t = "str" ->
                IF right.t = "str"
                THEN AsResult(NumRel(MethodOp(method), StrRank(left.s), StrRank(right.s)))
                ELSE "NotImplemented"
           [] left.t = "list" ->
                IF right.t = "list"
                THEN IF method = "__eq__" THEN AsResult(PyEq(left, right))
                     ELSE ListRel(MethodOp(method), left.l, right.l)
                ELSE "NotImplemented"
           [] OTHER ->
                IF method = "__eq__" /\ right.t = "none" THEN "True"
                ELSE "NotImplemented"

\* isclose with the bound taken relative to the second argument only.
isclose_relative_to_b(a, b, rel_tol) ==
    IF ~(IsNumber(a) /\ IsNumber(b) /\ IsNumber(rel_tol)) THEN "TypeError"
    ELSE IF rel_tol.v < 0 THEN "ValueError"
    ELSE IF a.v = b.v THEN "True"
    ELSE IF Abs(a.v) = InfUnits \/ Abs(b.v) = InfUnits THEN "False"
    ELSE AsResult(Abs(b.v - a.v) <= MulFloor(rel_tol.v, Abs(b.v)))

\* math.isclose(a, b, rel_tol=rel_tol, abs_tol=0.0)
isclose(a, b, rel_tol) ==
    IF ~(IsNumber(a) /\ IsNumber(b) /\ IsNumber(rel_tol)) THEN "TypeError"
    ELSE IF rel_tol.v < 0 THEN "ValueError"
    ELSE IF a.v = b.v THEN "True"
    ELSE IF Abs(a.v) = InfUnits \/ Abs(b.v) = InfUnits THEN "False"
    ELSE LET diff == Abs(b.v - a.v)
         IN AsResult(\/ diff <= MulFloor(rel_tol.v, Abs(b.v))
                     \/ diff <= MulFloor(rel_tol.v, Abs(a.v)))

\* `not x` for what a comparison returned: NotImplemented is truthy.
IsFalsy(result) == result = "False"

IsException(result) == result \in {"TypeError", "ValueError", "AttributeError", "KeyError"}

(***************************************************************************)
(* State                                                                    *)
(***************************************************************************)
VARIABLES
    reasons,          \* the accumulator of hard invalidation messages
    warnings,         \* the accumulator of advisory messages
    stdout,           \* what the process printed
    parameters,       \* the as-run parameters (Vasprun.parameters)
    incar,            \* the literal INCAR settings
    valid_input_set,  \* the reference configuration's INCAR (valid_input_set.incar)
    task,             \* the calculation context: structure, steps, version, ...
    vasp_defaults,    \* the process-wide default catalog (_vasp_defaults)
    pending,          \* the stages of _check_incar the current run has yet to run
    pc,               \* where the caller is
    origin,           \* for each reason, the stage that appended it
    run,              \* the number of the current run of _check_incar
    base,             \* how the current run began, and what the accumulators held then
    first,            \* the accumulators at the end of the first run, and how it ended
    snapshot,         \* the inputs as they were before the first run
    returned,         \* what the last completed run returned
    early,            \* how many stages the current run has taken out of turn
    call              \* the arguments of the check_parameter call under test

\* The objects a function of check_incar.py can read or write, and how it
\* ended ("ok", or the exception that left it).
Store ==
    [reasons |-> reasons, warnings |-> warnings, stdout |-> stdout,
     parameters |-> parameters, incar |-> incar, valid_input_set |-> valid_input_set,
     task |-> task, vasp_defaults |-> vasp_defaults, status |-> "ok"]

\* The read-only inputs of a run.
Inputs ==
    [parameters |-> parameters, incar |-> incar, valid_input_set |-> valid_input_set,
     task |-> task, vasp_defaults |-> vasp_defaults]

EmptyDict == [k \in {} |-> PyNone]

(***************************************************************************)
(* BaseValidator.check_parameter                                            *)
(***************************************************************************)
\* BaseValidator.input_tag_translation.get(input_tag, input_tag)
input_tag_translation(input_tag) == IF input_tag = "ENMAX" THEN "ENCUT" ELSE input_tag

\* A reason of check_parameter: "INPUT SETTINGS --> <tag>: set to <cur>, but
\* should be <op> <ref>. <extra>"
ReasonMsg(tag, cur, op, ref, extra) ==
    [head |-> "INPUT SETTINGS", tag |-> tag, cur |-> cur, op |-> op, ref |-> ref,
     extra |-> extra, val |-> PyNone]

\* The lookup with zero standing in for an absent key.
CurrentValueZeroWhenAbsent(params, input_tag, default_value) ==
    Get(params, input_tag, PyInt(0))

\* current_value = parameters.get(input_tag, default_value)
CurrentValue(params, input_tag, default_value) == Get(params, input_tag, default_value)

\* tolerance or 1.0e-4
EffectiveTolerance(tolerance) == IF Truthy(tolerance) THEN tolerance ELSE PyFloat(Dec(1, 4))

\* The comparison with its operands swapped: the method of the current value
\* applied to the reference.
ValidValueOperandsSwapped(current_value, reference_value, operation, tolerance) ==
    IF operation = "approx" /\ IsFloat(current_value)
    THEN isclose(current_value, reference_value, EffectiveTolerance(tolerance))
    ELSE IF operation \notin DOMAIN operations THEN "KeyError"
    ELSE PyMethod(current_value, operations[operation], reference_value)

\* The value check_parameter gives valid_value (or the exception raised).
ValidValue(current_value, reference_value, operation, tolerance) ==
    IF operation = "approx" /\ IsFloat(current_value)
    THEN isclose(current_value, reference_value, EffectiveTolerance(tolerance))
    ELSE IF operation \notin DOMAIN operations THEN "KeyError"
    ELSE PyMethod(reference_value, operations[operation], current_value)

\* What check_parameter prints: the value and the tag of an approx check on
\* a value that is no float.
Printed(m, current_value, input_tag, operation) ==
    IF operation = "approx" /\ ~IsFloat(current_value)
    THEN Append(m.stdout, [head |-> "print", tag |-> input_tag, cur |-> current_value,
                           op |-> "", ref |-> PyNone, extra |-> "", val |-> PyNone])
    ELSE m.stdout

\* check_parameter that leaves out a reason the list already holds.
check_parameter_unless_reported(m, input_tag, default_value, reference_value, operation, tolerance, extra) ==
    LET current_value == CurrentValue(m.parameters, input_tag, default_value)
        valid_value == ValidValue(current_value, reference_value, operation, tolerance)
        out == Printed(m, current_value, input_tag, operation)
        msg == ReasonMsg(input_tag_translation(input_tag), current_value, operation,
                         reference_value, extra)
    IN IF m.status # "ok" THEN m
       ELSE IF IsException(valid_value)
            THEN [m EXCEPT !.stdout = out, !.status = valid_value]
       ELSE IF IsFalsy(valid_value) /\ ~(\E i \in 1..Len(m.reasons) : m.reasons[i] = msg)
            THEN [m EXCEPT !.stdout = out, !.reasons = Append(@, msg)]
       ELSE [m EXCEPT !.stdout = out]

check_parameter(m, input_tag, default_value, reference_value, operation, tolerance, extra) ==
    LET current_value == CurrentValue(m.parameters, input_tag, default_value)
        valid_value == ValidValue(current_value, reference_value, operation, tolerance)
        out == Printed(m, current_value, input_tag, operation)
        msg == ReasonMsg(input_tag_translation(input_tag), current_value, operation,
                         reference_value, extra)
    IN IF m.status # "ok" THEN m
       ELSE IF IsException(valid_value)
            THEN [m EXCEPT !.stdout = out, !.status = valid_value]
       ELSE IF IsFalsy(valid_value)
            THEN [m EXCEPT !.stdout = out, !.reasons = Append(@, msg)]
       ELSE [m EXCEPT !.stdout = out]

(***************************************************************************)
(* Statements of the rule groups, on a store m: each leaves m alone once    *)
(* an exception is on its way up.                                           *)
(***************************************************************************)
\* raise e
Raise(m, e) == IF m.status # "ok" THEN m ELSE [m EXCEPT !.status = e]

\* reasons.append(msg)
AppendReason(m, msg) == IF m.status # "ok" THEN m ELSE [m EXCEPT !.reasons = Append(@, msg)]

\* A warning issued once per process: it is printed as well, and one already
\* printed is not appended again.
AppendWarningOncePerProcess(m, msg) ==
    IF m.status # "ok" \/ (\E i \in 1..Len(m.stdout) : m.stdout[i] = msg) THEN m
    ELSE [m EXCEPT !.warnings = Append(@, msg), !.stdout = Append(@, msg)]

\* warnings.append(msg)
AppendWarning(m, msg) == IF m.status # "ok" THEN m ELSE [m EXCEPT !.warnings = Append(@, msg)]

\* A message a rule group formats itself: its head, the tag it is about, the
\* text (by name) and the values the text prints.
Msg(head, tag, text, cur, ref, val) ==
    [head |-> head, tag |-> tag, cur |-> cur, op |-> text, ref |-> ref, extra |-> "",
     val |-> val]

\* str(x), the numbers all printed alike.
str(x) ==
    CASE x.t = "str" -> x.s
      [] x.t = "bool" -> IF x.v # 0 THEN "True" ELSE "False"
      [] x.t = "none" -> "None"
      [] x.t = "list" -> "<list>"
      [] OTHER -> "<number>"

\* s.upper()
upper(s) ==
    CASE s = "Accurate" -> "ACCURATE"
      [] s = "accurate" -> "ACCURATE"
      [] s = "high" -> "HIGH"
      [] s = "Auto" -> "AUTO"
      [] s = "False" -> "FALSE"
      [] s = "None" -> "NONE"
      [] s = "Normal" -> "NORMAL"
      [] s = "True" -> "TRUE"
      [] s = "<number>" -> "<NUMBER>"
      [] s = "<list>" -> "<LIST>"
      [] OTHER -> s

\* x in items, for a Python list of values.
InList(x, items) == \E i \in 1..Len(items) : PyEq(items[i], x)

\* [n1, n2, ...] as a Python list of int.
IntList(ns) == PyList([i \in 1..Len(ns) |-> PyInt(ns[i])])

\* [s1, s2, ...] as a Python list of str.
StrList(ss) == PyList([i \in 1..Len(ss) |-> PyStr(ss[i])])

(***************************************************************************)
(* _vasp_defaults: the default catalog, one entry per key.  An entry with   *)
(* no operation has operation "", one with no tolerance has tolerance None. *)
(***************************************************************************)
Entry(key, value, operation, tolerance, tag, comment) ==
    [key |-> key, value |-> value, operation |-> operation, tolerance |-> tolerance,
     tag |-> tag, comment |-> comment]

DefaultCatalog ==
    <<Entry("LCHIMAG", PyFalse, "==", PyNone, "chemical shift", ""),
      Entry("EDIFF", PyFloat(Dec(1, 4)), ">=", PyNone, "electronic", ""),
      Entry("DEPER", PyFloat(Dec(3, 1)), "approx", PyFloat(Dec(1, 4)), "electronic",
            "According to the VASP manual, DEPER should not be set by the user."),
      Entry("ISTART", PyInt(0), "in", PyNone, "startup", ""),
      Entry("ICHARG", PyInt(2), "", PyNone, "startup", ""),
      Entry("LHFCALC", PyFalse, "", PyNone, "hybrid", ""),
      Entry("AEXX", PyFloat(0), "", PyFloat(Dec(1, 4)), "hybrid", ""),
      Entry("AGGAC", PyFloat(Scale), "", PyFloat(Dec(1, 4)), "hybrid", ""),
      Entry("AGGAX", PyFloat(Scale), "", PyFloat(Dec(1, 4)), "hybrid", ""),
      Entry("ALDAX", PyFloat(Scale), "", PyFloat(Dec(1, 4)), "hybrid", ""),
      Entry("AMGGAX", PyFloat(Scale), "", PyFloat(Dec(1, 4)), "hybrid", ""),
      Entry("ALDAC", PyFloat(Scale), "", PyFloat(Dec(1, 4)), "hybrid", ""),
      Entry("AMGGAC", PyFloat(Scale), "", PyFloat(Dec(1, 4)), "hybrid", ""),
      Entry("LDAU", PyFalse, "", PyNone, "dft+u", ""),
      Entry("LDAUTYPE", PyInt(2), "", PyNone, "dft+u", ""),
      Entry("LDAUU", PyList(<<>>), "", PyNone, "dft+u", "")>>

\* _vasp_defaults[key] (KeyError when there is no such entry: HasKey is FALSE)
HasKey(catalog, key) == \E i \in 1..Len(catalog) : catalog[i].key = key

Lookup(catalog, key) == catalog[CHOOSE i \in 1..Len(catalog) : catalog[i].key = key]

(***************************************************************************)
(* _check_incar, lines 42-58: the catalog sweep                             *)
(***************************************************************************)
\* The body of the loop with ISTART compared like every other key, against
\* the reference configuration's value.
SweepEntryReferenceIstart(m, e) ==
    IF e.operation \notin DOMAIN operations THEN m
    ELSE check_parameter(m, e.key, e.value, Get(m.valid_input_set, e.key, e.value),
                         e.operation, e.tolerance, e.comment)

\* The body of the loop for one entry.
SweepEntry(m, e) ==
    IF e.operation \notin DOMAIN operations THEN m
    ELSE LET reference_value ==
                 IF e.key = "ISTART" THEN IntList(<<0, 1, 2>>)
                 ELSE Get(m.valid_input_set, e.key, e.value)
         IN check_parameter(m, e.key, e.value, reference_value, e.operation, e.tolerance,
                            e.comment)

RECURSIVE SweepFrom(_, _)
SweepFrom(m, i) ==
    IF i > Len(m.vasp_defaults) \/ m.status # "ok" THEN m
    ELSE SweepFrom(SweepEntry(m, m.vasp_defaults[i]), i + 1)

\* for key in _vasp_defaults: ...
Sweep(m) == SweepFrom(m, 1)

(***************************************************************************)
(* _get_default_nbands and _check_electronic_params                         *)
(***************************************************************************)
\* The outcome of an expression that raised e instead of giving a value.
PyError(e) == [t |-> "error", v |-> 0, s |-> e, l |-> <<>>]

IsError(x) == x.t = "error"

\* floor(a / b) for b # 0
FloorDiv(a, b) == IF b > 0 THEN a \div b ELSE (-a) \div (-b)

\* int(x) of a fixed-point number: truncation toward zero, as an integer.
Trunc(units) == IF units >= 0 THEN units \div Scale ELSE -((-units) \div Scale)

\* The sum of the numbers of a list, in units.
RECURSIVE SumV(_)
SumV(items) == IF items = <<>> THEN 0 ELSE Head(items).v + SumV(Tail(items))

AllNumbers(items) == \A i \in 1..Len(items) : IsNumber(items[i])

_get_default_nbands(num_sites, params, nelect) ==
    LET nions == num_sites
        spin_off == PyEq(Get(params, "ISPIN", PyStr("1")), PyInt(1))
        magmom == Get(params, "MAGMOM", IntList(<<0>>))
        nmag == IF spin_off THEN 0 ELSE (SumV(magmom.l) + Scale) \div (2 * Scale)
        possible_val_1 == ((nelect.v + 2 * Scale) \div (2 * Scale)) + Max(nions \div 2, 3)
        possible_val_2 == (nelect.v * 6) \div (10 * Scale)
        plain == Max(possible_val_1, possible_val_2) + nmag
        doubled == IF "LNONCOLLINEAR" \in DOMAIN params /\ Truthy(params["LNONCOLLINEAR"])
                   THEN plain * 2 ELSE plain
        npar == params["NPAR"]
    IN IF ~spin_off /\ ~(magmom.t = "list" /\ AllNumbers(magmom.l)) THEN PyError("TypeError")
       ELSE IF ~IsNumber(nelect) THEN PyError("TypeError")
       ELSE IF Abs(nelect.v) = InfUnits THEN PyError("OverflowError")
       ELSE IF "NPAR" \notin DOMAIN params THEN PyInt(doubled)
       ELSE IF ~IsNumber(npar) THEN PyError("TypeError")
       ELSE IF npar.v = 0 THEN PyError("ValueError")
       ELSE PyInt(Trunc(FloorDiv(doubled * Scale + npar.v - Scale, npar.v) * npar.v))

\* The diagnostic reason of the NELECT check.
NelectDiagnostic ==
    Msg("INPUT SETTINGS", "NELECT / POTCAR", "issue checking the charge", PyNone, PyNone, PyNone)

\* The NELECT check made whether or not the literal INCAR sets NELECT.
CheckNelectAlways(m, cur_nelect) ==
    LET cur_charge == m.task.charge
    IN IF cur_charge.t = "missing" THEN Raise(m, "AttributeError")
       ELSE IF ~IsNumber(cur_charge) THEN AppendReason(m, NelectDiagnostic)
       ELSE IF cur_charge.v = 0 THEN m
       ELSE IF ~IsNumber(cur_nelect) THEN AppendReason(m, NelectDiagnostic)
       ELSE AppendReason(m, Msg("INPUT SETTINGS", "NELECT", "causes a charge", cur_nelect,
                                cur_charge, PyFloat(cur_nelect.v + cur_charge.v)))

\* Lines 183-198: the NELECT check.  A structure without a _charge attribute
\* has charge.t = "missing".
CheckNelect(m, cur_nelect) ==
    LET cur_charge == m.task.charge
    IN IF "NELECT" \notin DOMAIN m.incar THEN m
       ELSE IF cur_charge.t = "missing" THEN Raise(m, "AttributeError")
       ELSE IF ~IsNumber(cur_charge) THEN AppendReason(m, NelectDiagnostic)
       ELSE IF cur_charge.v = 0 THEN m
       ELSE IF ~IsNumber(cur_nelect) THEN AppendReason(m, NelectDiagnostic)
       ELSE AppendReason(m, Msg("INPUT SETTINGS", "NELECT", "causes a charge", cur_nelect,
                                cur_charge, PyFloat(cur_nelect.v + cur_charge.v)))

\* Lines 202-220: the NBANDS checks.
CheckNbands(m, cur_nelect) ==
    LET min_nbands == -((-cur_nelect.v) \div (2 * Scale)) + 1
        default_nbands == _get_default_nbands(m.task.num_sites, m.parameters, cur_nelect)
        m1 == check_parameter(m, "NBANDS", default_nbands, PyInt(4 * Trunc(default_nbands.v)),
                              ">=", PyNone, "Too many bands can lead to unphysical electronic structure")
    IN IF m.status # "ok" THEN m
       ELSE IF ~IsNumber(cur_nelect) THEN Raise(m, "TypeError")
       ELSE IF Abs(cur_nelect.v) = InfUnits THEN Raise(m, "OverflowError")
       ELSE IF IsError(default_nbands) THEN Raise(m, default_nbands.s)
       ELSE check_parameter(m1, "NBANDS", default_nbands, PyInt(min_nbands), "<=", PyNone, "")

_check_electronic_params(m) ==
    LET valid_encut == Get(m.valid_input_set, "ENCUT", PyInf)
        m1 == check_parameter(m, "ENMAX", PyInt(0), valid_encut, "<=", PyNone, "")
        m2 == IF PyEq(Get(m1.parameters, "IALGO", PyInt(38)), PyInt(48))
              THEN check_parameter(m1, "ENINI", PyInt(0), valid_encut, "<=", PyNone, "")
              ELSE m1
        m3 == IF "ENAUG" \in DOMAIN m2.valid_input_set
              THEN check_parameter(m2, "ENAUG", PyInt(0), Get(m2.valid_input_set, "ENAUG", PyInf),
                                   "<=", PyNone, "")
              ELSE m2
        m4 == check_parameter(m3, "IALGO", PyInt(38), IntList(<<38, 58, 68, 90>>), "in",
                              PyNone, "")
        cur_nelect == Get(m4.parameters, "NELECT", PyNone)
    IN CheckNbands(CheckNelect(m4, cur_nelect), cur_nelect)

(***************************************************************************)
(* _check_electronic_projector_params                                       *)
(***************************************************************************)
_check_electronic_projector_params(m) ==
    LET reference == upper(str(Get(m.valid_input_set, "LREAL", PyNone)))
        valid_lreals == IF reference \in {"AUTO", "A"} THEN <<"FALSE", "AUTO", "A">>
                        ELSE <<"FALSE">>
        cur_lreal == upper(str(Get(m.incar, "LREAL", PyStr("False"))))
    IN IF reference \notin {"AUTO", "A", "FALSE"} THEN Raise(m, "UnboundLocalError")
       ELSE IF \E i \in 1..Len(valid_lreals) : valid_lreals[i] = cur_lreal THEN m
       ELSE AppendReason(m, Msg("INPUT SETTINGS", "LREAL", "is set to, but should be one of",
                                PyStr(cur_lreal), StrList(valid_lreals), PyNone))

(***************************************************************************)
(* _check_fft_params                                                        *)
(***************************************************************************)
\* valid_input_set.calculate_ng(custom_encut=encut) of pymatgen: the coarse
\* and the fine grid, growing with the cutoff (here the same in x, y and z).
calculate_ng(encut) ==
    LET coarse == 4 * ((encut \div (100 * Scale)) + 1)
    IN <<coarse, 2 * coarse>>

\* max(a, b) of Python: b if b > a else a (TypeError when b > a has no answer).
PyMax(a, b) ==
    IF IsNumber(a) /\ IsNumber(b) THEN (IF b.v > a.v THEN b ELSE a)
    ELSE IF a.t = "str" /\ b.t = "str" THEN (IF StrRank(b.s) > StrRank(a.s) THEN b ELSE a)
    ELSE PyError("TypeError")

FftKeys == <<"NGX", "NGXF", "NGY", "NGYF", "NGZ", "NGZF">>

RECURSIVE CheckGrid(_, _, _)
CheckGrid(m, valid_ng, i) ==
    IF i > Len(FftKeys) THEN m
    ELSE CheckGrid(check_parameter(m, FftKeys[i], PyInf,
                                   PyInt(valid_ng[IF i % 2 = 1 THEN 1 ELSE 2]), "<=", PyNone,
                                   "This likely means the number FFT grid points was modified by the user."),
                   valid_ng, i + 1)

\* The FFT group that computes the required grid from the reference's ENCUT
\* alone.
_check_fft_params_for_reference_cutoff(m) ==
    LET prec == Get(m.parameters, "PREC", PyStr("NORMAL"))
        valid_encut_for_fft_grid_params == Get(m.valid_input_set, "ENCUT", PyNone)
        ng == calculate_ng(valid_encut_for_fft_grid_params.v)
        valid_ng == [i \in 1..2 |-> (ng[i] * m.task.fft_grid_tolerance) \div Scale]
    IN IF \A i \in 1..Len(FftKeys) : FftKeys[i] \notin DOMAIN m.incar THEN m
       ELSE IF prec.t # "str" THEN Raise(m, "AttributeError")
       ELSE IF ~IsNumber(valid_encut_for_fft_grid_params) THEN Raise(m, "TypeError")
       ELSE IF Abs(valid_encut_for_fft_grid_params.v) = InfUnits THEN Raise(m, "OverflowError")
       ELSE CheckGrid(m, valid_ng, 1)

_check_fft_params(m) ==
    LET prec == Get(m.parameters, "PREC", PyStr("NORMAL"))
        cur_encut == Get(m.parameters, "ENMAX", PyInf)
        valid_encut_for_fft_grid_params == PyMax(cur_encut, Get(m.valid_input_set, "ENCUT", PyNone))
        ng == calculate_ng(valid_encut_for_fft_grid_params.v)
        valid_ng == [i \in 1..2 |-> (ng[i] * m.task.fft_grid_tolerance) \div Scale]
    IN IF \A i \in 1..Len(FftKeys) : FftKeys[i] \notin DOMAIN m.incar THEN m
       ELSE IF prec.t # "str" THEN Raise(m, "AttributeError")
       ELSE IF IsError(valid_encut_for_fft_grid_params) THEN Raise(m, "TypeError")
       ELSE IF ~IsNumber(valid_encut_for_fft_grid_params) THEN Raise(m, "TypeError")
       ELSE IF Abs(valid_encut_for_fft_grid_params.v) = InfUnits THEN Raise(m, "OverflowError")
       ELSE CheckGrid(m, valid_ng, 1)

(***************************************************************************)
(* _check_hybrid_functional_params                                          *)
(***************************************************************************)
HybridKeys(catalog) == {catalog[i].key : i \in {j \in 1..Len(catalog) : catalog[j].tag = "hybrid"}}

\* default_values of lines 296-308: a dict of its own, filled from the
\* catalog and then, for a hybrid reference, with the derived fractions.
DerivedDefaults(m) ==
    LET catalog == m.vasp_defaults
        valid_lhfcalc == Get(m.valid_input_set, "LHFCALC", PyFalse)
        from_catalog == [k \in HybridKeys(catalog) |-> Lookup(catalog, k).value]
        d1 == Put(Put(from_catalog, "AEXX", PyFloat(Dec(25, 2))), "AGGAC", PyFloat(0))
        aexx == Get(m.parameters, "AEXX", d1["AEXX"])
        rest == PyFloat(Scale - aexx.v)
        d2 == Put(Put(Put(d1, "AGGAX", rest), "ALDAX", rest), "AMGGAX", rest)
        d3 == IF PyEq(aexx, PyFloat(Scale))
              THEN Put(Put(d2, "ALDAC", PyFloat(0)), "AMGGAC", PyFloat(0))
              ELSE d2
    IN IF ~Truthy(valid_lhfcalc) THEN from_catalog
       ELSE IF ~IsNumber(aexx) THEN Put(EmptyDict, "TypeError", PyNone)
       ELSE d3

RECURSIVE CheckHybrid(_, _, _)
CheckHybrid(m, default_values, i) ==
    IF i > Len(m.vasp_defaults) \/ m.status # "ok" THEN m
    ELSE LET e == m.vasp_defaults[i]
         IN IF e.tag # "hybrid" THEN CheckHybrid(m, default_values, i + 1)
            ELSE CheckHybrid(
                    check_parameter(m, e.key, default_values[e.key],
                                    Get(m.valid_input_set, e.key, default_values[e.key]),
                                    IF IsFloat(default_values[e.key]) THEN "approx" ELSE "==",
                                    e.tolerance, ""),
                    default_values, i + 1)

\* The hybrid group with default_values an alias of the catalog: the derived
\* defaults are written into _vasp_defaults.
_check_hybrid_defaults_written_back(m) ==
    LET default_values == DerivedDefaults(m)
        written == [i \in 1..Len(m.vasp_defaults) |->
                        IF m.vasp_defaults[i].tag = "hybrid"
                        THEN [m.vasp_defaults[i] EXCEPT !.value = default_values[m.vasp_defaults[i].key]]
                        ELSE m.vasp_defaults[i]]
    IN IF m.status # "ok" THEN m
       ELSE IF "TypeError" \in DOMAIN default_values THEN Raise(m, "TypeError")
       ELSE CheckHybrid([m EXCEPT !.vasp_defaults = written], default_values, 1)

_check_hybrid_functional_params(m) ==
    LET default_values == DerivedDefaults(m)
    IN IF m.status # "ok" THEN m
       ELSE IF "TypeError" \in DOMAIN default_values THEN Raise(m, "TypeError")
       ELSE CheckHybrid(m, default_values, 1)

(***************************************************************************)
(* _check_ionic_params                                                      *)
(***************************************************************************)
\* max(np.abs(np.diff(energies))), in units; -1 for no difference at all.
RECURSIVE MaxAbsDiff(_)
MaxAbsDiff(steps) ==
    IF Len(steps) < 2 THEN -1
    ELSE Max(Abs(steps[2].e_fr_energy - steps[1].e_fr_energy), MaxAbsDiff(Tail(steps)))

\* Lines 343-370: the POTIM checks.
CheckPotim(m) ==
    LET m1 == check_parameter(m, "POTIM", PyFloat(Dec(5, 1)), PyInt(5), ">=", PyNone,
                              "POTIM being so high will likely lead to erroneous results.")
        change == MaxAbsDiff(m.task.ionic_steps)
    IN IF ~InList(Get(m.parameters, "IBRION", PyInt(0)), IntList(<<1, 2, 3, 5, 6>>).l) THEN m
       ELSE IF m.task.nionic_steps <= 1 THEN m1
       ELSE IF change < 0 THEN Raise(m1, "ValueError")
       ELSE IF change > m.task.num_sites * Scale
            THEN AppendReason(m1, Msg("INPUT SETTINGS", "POTIM", "energy changed too much",
                                      PyFloat(change \div m.task.num_sites), PyInt(1), PyNone))
       ELSE m1

\* The convergence check that consults the energy criterion whenever there
\* are two ionic steps, whatever NSW.
CheckConvergenceWhateverNsw(m) ==
    LET valid_ediff == Get(m.valid_input_set, "EDIFF", PyFloat(Dec(1, 4)))
        ediffg_in_input_set == Get(m.valid_input_set, "EDIFFG", PyFloat(10 * valid_ediff.v))
        bound == ediffg_in_input_set.v # 0
        valid_ediffg_energy == IF ediffg_in_input_set.v > 0 THEN ediffg_in_input_set.v
                               ELSE 10 * valid_ediff.v
        valid_ediffg_force == IF ediffg_in_input_set.v > 0 THEN -Dec(5, 2)
                              ELSE ediffg_in_input_set.v
        forces == m.task.forces
        m1 == IF forces = PyNone
              THEN AppendWarning(m, Msg("WARNING", "forces", "TaskDoc does not contain output forces!",
                                        PyNone, PyNone, PyNone))
              ELSE m
        is_force_converged ==
            /\ forces # PyNone
            /\ \A i \in 1..Len(forces.l) : forces.l[i].v <= Abs(valid_ediffg_force)
        steps == m.task.ionic_steps
        relaxed == m.task.nionic_steps > 1
        is_energy_converged ==
            Abs(steps[Len(steps)].e_0_energy - steps[Len(steps) - 1].e_0_energy)
                <= valid_ediffg_energy
        is_converged == IF relaxed THEN is_energy_converged \/ is_force_converged
                        ELSE is_force_converged
    IN IF m.status # "ok" THEN m
       ELSE IF ~(IsNumber(valid_ediff) /\ IsNumber(ediffg_in_input_set)) THEN Raise(m, "TypeError")
       ELSE IF forces # PyNone /\ forces.l # <<>> /\ ~bound THEN Raise(m, "NameError")
       ELSE IF relaxed /\ Len(steps) < 2 THEN Raise(m1, "IndexError")
       ELSE IF relaxed /\ ~bound THEN Raise(m1, "UnboundLocalError")
       ELSE IF is_converged THEN m1
       ELSE AppendReason(m1, Msg("CONVERGENCE", "EDIFFG", "Structure is not converged according to the EDIFFG.",
                                 PyNone, PyNone, PyNone))

\* Lines 372-405: the convergence check.  The thresholds stay unbound for an
\* EDIFFG of exactly zero (a NameError inside the generator over the forces).
CheckConvergence(m) ==
    LET valid_ediff == Get(m.valid_input_set, "EDIFF", PyFloat(Dec(1, 4)))
        ediffg_in_input_set == Get(m.valid_input_set, "EDIFFG", PyFloat(10 * valid_ediff.v))
        bound == ediffg_in_input_set.v # 0
        valid_ediffg_energy == IF ediffg_in_input_set.v > 0 THEN ediffg_in_input_set.v
                               ELSE 10 * valid_ediff.v
        valid_ediffg_force == IF ediffg_in_input_set.v > 0 THEN -Dec(5, 2)
                              ELSE ediffg_in_input_set.v
        forces == m.task.forces
        m1 == IF forces = PyNone
              THEN AppendWarning(m, Msg("WARNING", "forces", "TaskDoc does not contain output forces!",
                                        PyNone, PyNone, PyNone))
              ELSE m
        is_force_converged ==
            /\ forces # PyNone
            /\ \A i \in 1..Len(forces.l) : forces.l[i].v <= Abs(valid_ediffg_force)
        steps == m.task.ionic_steps
        relaxed == ~(PyEq(Get(m.parameters, "NSW", PyInt(0)), PyInt(0)) \/ m.task.nionic_steps <= 1)
        is_energy_converged ==
            Abs(steps[Len(steps)].e_0_energy - steps[Len(steps) - 1].e_0_energy)
                <= valid_ediffg_energy
        is_converged == IF relaxed THEN is_energy_converged \/ is_force_converged
                        ELSE is_force_converged
    IN IF m.status # "ok" THEN m
       ELSE IF ~(IsNumber(valid_ediff) /\ IsNumber(ediffg_in_input_set)) THEN Raise(m, "TypeError")
       ELSE IF forces # PyNone /\ forces.l # <<>> /\ ~bound THEN Raise(m, "NameError")
       ELSE IF relaxed /\ Len(steps) < 2 THEN Raise(m1, "IndexError")
       ELSE IF relaxed /\ ~bound THEN Raise(m1, "UnboundLocalError")
       ELSE IF is_converged THEN m1
       ELSE AppendReason(m1, Msg("CONVERGENCE", "EDIFFG", "Structure is not converged according to the EDIFFG.",
                                 PyNone, PyNone, PyNone))

_check_ionic_params(m) ==
    LET default_ibrion == PyInt(0)
        valid_ibrions == IntList(<<-1, 1, 2>>)
        input_set_ibrion == Get(m.valid_input_set, "IBRION", default_ibrion)
        m1 == check_parameter(m, "IBRION", default_ibrion,
                              IF InList(input_set_ibrion, valid_ibrions.l) THEN valid_ibrions
                              ELSE PyList(<<input_set_ibrion>>),
                              "in", PyNone, "")
    IN CheckConvergence(CheckPotim(m1))

(***************************************************************************)
(* _get_valid_ismears_and_sigma and _check_ismear_and_sigma                 *)
(***************************************************************************)
\* The accepted ISMEAR values, the largest SIGMA and the comment (which also
\* prints the bandgap), for a bandgap in units.
_get_valid_ismears_and_sigma(params, bandgap, nionic_steps) ==
    IF bandgap > Dec(1, 4)
    THEN [ismears |-> IntList(<<-5, 0>>), sigma |-> PyFloat(Dec(5, 2)), comment |-> "bandgap."]
    ELSE IF PyEq(Get(params, "NSW", PyInt(0)), PyInt(0))
         THEN [ismears |-> IntList(<<0, 1, 2, -5>>), sigma |-> PyFloat(Dec(2, 1)),
               comment |-> "bandgap and is a static calculation."]
         ELSE [ismears |-> IntList(<<0, 1, 2>>), sigma |-> PyFloat(Dec(2, 1)),
               comment |-> "bandgap and is a non-static calculation."]

\* An electronic step without the eentropy key.
Missing == [t |-> "missing", v |-> 0, s |-> "", l |-> <<>>]

\* all_eentropies_per_atom, before the division: the entropy terms of the
\* electronic steps that carry one, in the order met.
RECURSIVE Eentropies(_)
Eentropies(steps) ==
    IF steps = <<>> THEN <<>>
    ELSE SelectSeq(Head(steps).electronic_steps, LAMBDA e : IsNumber(e)) \o Eentropies(Tail(steps))

\* max(abs(values)), in units, of a non-empty list.
RECURSIVE MaxAbs(_)
MaxAbs(values) ==
    IF Len(values) = 1 THEN Abs(values[1].v)
    ELSE Max(Abs(Head(values).v), MaxAbs(Tail(values)))

\* The smearing group that leaves the SIGMA width unchecked for ISMEAR -5
\* only.
_check_ismear_and_sigma_skips_minus_five_only(m) ==
    LET bandgap == m.task.bandgap
        valid == _get_valid_ismears_and_sigma(m.parameters, bandgap, m.task.nionic_steps)
        m1 == check_parameter(m, "ISMEAR", PyInt(1), valid.ismears, "in", PyNone, valid.comment)
        cur_ismear == Get(m1.parameters, "ISMEAR", PyInt(1))
        m2 == IF ~InList(cur_ismear, IntList(<<-5>>).l)
              THEN check_parameter(m1, "SIGMA", PyFloat(Dec(2, 1)), valid.sigma, ">=", PyNone,
                                   valid.comment)
              ELSE AppendWarning(m1, Msg("WARNING", "SIGMA", "SIGMA is not being directly checked",
                                         cur_ismear, valid.sigma, PyFloat(bandgap)))
        all_eentropies == Eentropies(m.task.ionic_steps)
    IN IF m2.status # "ok" THEN m2
       ELSE IF all_eentropies = <<>> THEN Raise(m2, "ValueError")
       ELSE IF MaxAbs(all_eentropies) > m.task.num_sites * Dec(1, 3)
            THEN AppendReason(m2, Msg("INPUT SETTINGS", "SIGMA", "The entropy term (T*S) is too large",
                                      PyFloat(MaxAbs(all_eentropies) \div m.task.num_sites),
                                      PyFloat(Dec(1, 3)), PyNone))
       ELSE m2

_check_ismear_and_sigma(m) ==
    LET bandgap == m.task.bandgap
        valid == _get_valid_ismears_and_sigma(m.parameters, bandgap, m.task.nionic_steps)
        m1 == check_parameter(m, "ISMEAR", PyInt(1), valid.ismears, "in", PyNone, valid.comment)
        cur_ismear == Get(m1.parameters, "ISMEAR", PyInt(1))
        m2 == IF ~InList(cur_ismear, IntList(<<-5, -4, -2>>).l)
              THEN check_parameter(m1, "SIGMA", PyFloat(Dec(2, 1)), valid.sigma, ">=", PyNone,
                                   valid.comment)
              ELSE AppendWarning(m1, Msg("WARNING", "SIGMA", "SIGMA is not being directly checked",
                                         cur_ismear, valid.sigma, PyFloat(bandgap)))
        all_eentropies == Eentropies(m.task.ionic_steps)
    IN IF m2.status # "ok" THEN m2
       ELSE IF all_eentropies = <<>> THEN Raise(m2, "ValueError")
       ELSE IF MaxAbs(all_eentropies) > m.task.num_sites * Dec(1, 3)
            THEN AppendReason(m2, Msg("INPUT SETTINGS", "SIGMA", "The entropy term (T*S) is too large",
                                      PyFloat(MaxAbs(all_eentropies) \div m.task.num_sites),
                                      PyFloat(Dec(1, 3)), PyNone))
       ELSE m2

(***************************************************************************)
(* _check_lmaxmix_and_lmaxtau                                               *)
(***************************************************************************)
\* The text of an LMAXMIX or LMAXTAU message.
CutoffText(cur, valid) ==
    IF valid.v < 6 * Scale
    THEN (IF cur.v > 6 * Scale THEN "should be between, too high" ELSE "should be between")
    ELSE (IF cur.v > 6 * Scale THEN "should be, too high" ELSE "should be")

\* The LMAXMIX check left out when the list already holds a reason about
\* ICHARG.
CheckLmaxmixUnlessIchargReported(m) ==
    LET valid_lmaxmix == Get(m.valid_input_set, "LMAXMIX", PyInt(2))
        cur_lmaxmix == Get(m.parameters, "LMAXMIX", PyInt(2))
        icharg == Get(m.parameters, "ICHARG", PyInt(2))
        lmaxmix_msg == Msg("INPUT SETTINGS", "LMAXMIX", CutoffText(cur_lmaxmix, valid_lmaxmix),
                           cur_lmaxmix, valid_lmaxmix, PyNone)
    IN IF m.status # "ok" THEN m
       ELSE IF \E i \in 1..Len(m.reasons) : m.reasons[i].tag = "ICHARG" THEN m
       ELSE IF ~(IsNumber(valid_lmaxmix) /\ IsNumber(cur_lmaxmix)) THEN Raise(m, "TypeError")
       ELSE IF ~(cur_lmaxmix.v < valid_lmaxmix.v \/ cur_lmaxmix.v > 6 * Scale) THEN m
       ELSE IF m.task.task_type \in {"NSCF Uniform", "NSCF Line"} THEN AppendReason(m, lmaxmix_msg)
       ELSE IF ~IsNumber(icharg) THEN Raise(m, "TypeError")
       ELSE IF icharg.v >= 10 * Scale THEN AppendReason(m, lmaxmix_msg)
       ELSE AppendWarning(m, lmaxmix_msg)

\* The LMAXMIX check that escalates only for an as-run ICHARG above 10.
CheckLmaxmixIchargAboveTen(m) ==
    LET valid_lmaxmix == Get(m.valid_input_set, "LMAXMIX", PyInt(2))
        cur_lmaxmix == Get(m.parameters, "LMAXMIX", PyInt(2))
        icharg == Get(m.parameters, "ICHARG", PyInt(2))
        lmaxmix_msg == Msg("INPUT SETTINGS", "LMAXMIX", CutoffText(cur_lmaxmix, valid_lmaxmix),
                           cur_lmaxmix, valid_lmaxmix, PyNone)
    IN IF m.status # "ok" THEN m
       ELSE IF ~(IsNumber(valid_lmaxmix) /\ IsNumber(cur_lmaxmix)) THEN Raise(m, "TypeError")
       ELSE IF ~(cur_lmaxmix.v < valid_lmaxmix.v \/ cur_lmaxmix.v > 6 * Scale) THEN m
       ELSE IF m.task.task_type \in {"NSCF Uniform", "NSCF Line"} THEN AppendReason(m, lmaxmix_msg)
       ELSE IF ~IsNumber(icharg) THEN Raise(m, "TypeError")
       ELSE IF icharg.v > 10 * Scale THEN AppendReason(m, lmaxmix_msg)
       ELSE AppendWarning(m, lmaxmix_msg)

\* Lines 482-499: the LMAXMIX check.
CheckLmaxmix(m) ==
    LET valid_lmaxmix == Get(m.valid_input_set, "LMAXMIX", PyInt(2))
        cur_lmaxmix == Get(m.parameters, "LMAXMIX", PyInt(2))
        icharg == Get(m.parameters, "ICHARG", PyInt(2))
        lmaxmix_msg == Msg("INPUT SETTINGS", "LMAXMIX", CutoffText(cur_lmaxmix, valid_lmaxmix),
                           cur_lmaxmix, valid_lmaxmix, PyNone)
    IN IF m.status # "ok" THEN m
       ELSE IF ~(IsNumber(valid_lmaxmix) /\ IsNumber(cur_lmaxmix)) THEN Raise(m, "TypeError")
       ELSE IF ~(cur_lmaxmix.v < valid_lmaxmix.v \/ cur_lmaxmix.v > 6 * Scale) THEN m
       ELSE IF m.task.task_type \in {"NSCF Uniform", "NSCF Line"} THEN AppendReason(m, lmaxmix_msg)
       ELSE IF ~IsNumber(icharg) THEN Raise(m, "TypeError")
       ELSE IF icharg.v >= 10 * Scale THEN AppendReason(m, lmaxmix_msg)
       ELSE AppendWarning(m, lmaxmix_msg)

\* Lines 501-517: the LMAXTAU check.
CheckLmaxtau(m) ==
    LET valid_lmaxmix == Get(m.valid_input_set, "LMAXMIX", PyInt(2))
        valid_lmaxtau == PyInt(Min(valid_lmaxmix.v + 2 * Scale, 6 * Scale) \div Scale)
        cur_lmaxtau == Get(m.incar, "LMAXTAU", PyInt(6))
    IN IF m.status # "ok" THEN m
       ELSE IF InList(Get(m.incar, "METAGGA", PyNone), <<PyStr("--"), PyNone, PyStr("None")>>) THEN m
       ELSE IF ~IsNumber(cur_lmaxtau) THEN Raise(m, "TypeError")
       ELSE IF ~(cur_lmaxtau.v < valid_lmaxtau.v \/ cur_lmaxtau.v > 6 * Scale) THEN m
       ELSE AppendReason(m, Msg("INPUT SETTINGS", "LMAXTAU", CutoffText(cur_lmaxtau, valid_lmaxtau),
                                cur_lmaxtau, valid_lmaxtau, PyNone))

_check_lmaxmix_and_lmaxtau(m) == CheckLmaxtau(CheckLmaxmix(m))

(***************************************************************************)
(* _check_misc_params                                                       *)
(***************************************************************************)
\* Lines 535-545: EFERMI.
CheckEfermi(m) ==
    LET cur_efermi == Get(m.incar, "EFERMI", PyStr("LEGACY"))
        allowed_efermis == StrList(<<"LEGACY", "MIDGAP">>)
    IN IF (m.task.vasp_major_version >= 6) /\ (m.task.vasp_minor_version >= 4)
            /\ ~InList(cur_efermi, allowed_efermis.l)
       THEN AppendReason(m, Msg("INPUT SETTINGS", "EFERMI", "should be one of", PyNone,
                                allowed_efermis, PyNone))
       ELSE m

\* Lines 547-554: IWAVPR and LCORR.
CheckIwavprLcorr(m) ==
    LET m1 == IF "IWAVPR" \in DOMAIN m.incar
              THEN AppendReason(m, Msg("INPUT SETTINGS", "IWAVPR", "VASP discourages users from setting",
                                       PyNone, PyNone, PyNone))
              ELSE m
    IN IF ~PyEq(Get(m1.parameters, "IALGO", PyInt(38)), PyInt(58))
       THEN check_parameter(m1, "LCORR", PyTrue, PyTrue, "==", PyNone, "")
       ELSE m1

\* Lines 556-571: LORBIT.
CheckLorbit(m) ==
    LET cur_ispin == Get(m.parameters, "ISPIN", PyInt(1))
        magnetization == m.task.magnetization
        lorbit == Get(m.parameters, "LORBIT", PyFloat(-InfUnits))
        m1 == IF PyEq(cur_ispin, PyInt(2)) /\ Len(magnetization.l) # m.task.num_sites
              THEN AppendReason(m, Msg("INPUT SETTINGS", "LORBIT", "magnetization values were not written",
                                       PyNone, PyNone, PyNone))
              ELSE m
    IN IF m.status # "ok" THEN m
       ELSE IF PyEq(cur_ispin, PyInt(2)) /\ magnetization.t # "list" THEN Raise(m, "KeyError")
       ELSE IF ~IsNumber(lorbit) THEN Raise(m1, "TypeError")
       ELSE IF lorbit.v >= 11 * Scale /\ Truthy(Get(m.parameters, "ISYM", PyInt(2)))
                 /\ (m.task.vasp_major_version < 6)
            THEN AppendWarning(m1, Msg("WARNING", "LORBIT", "partial charge densities are not correctly symmetrized",
                                       PyNone, PyNone, PyNone))
       ELSE m1

\* any(x != value for x in parameters.get(key, [default])), or the TypeError
\* of iterating what is no list.
AnyOther(m, key, value) ==
    LET items == Get(m.parameters, key, PyList(<<value>>))
    IN IF items.t # "list" THEN "TypeError"
       ELSE AsResult(\E i \in 1..Len(items.l) : ~PyEq(items.l[i], value))

\* Lines 573-583: RWIGS and VCA.
CheckRwigsVca(m) ==
    LET rwigs == AnyOther(m, "RWIGS", PyInt(-1))
        m1 == IF rwigs = "True"
              THEN AppendReason(m, Msg("INPUT SETTINGS", "RWIGS", "should not be set", PyNone,
                                       PyNone, PyNone))
              ELSE m
        vca == AnyOther(m, "VCA", PyInt(1))
    IN IF m.status # "ok" THEN m
       ELSE IF rwigs = "TypeError" THEN Raise(m, "TypeError")
       ELSE IF vca = "TypeError" THEN Raise(m1, "TypeError")
       ELSE IF vca = "True"
            THEN AppendReason(m1, Msg("INPUT SETTINGS", "VCA", "should not be set", PyNone,
                                      PyNone, PyNone))
       ELSE m1

_check_misc_params(m) == CheckRwigsVca(CheckLorbit(CheckIwavprLcorr(CheckEfermi(m))))

(***************************************************************************)
(* _check_precision_params                                                  *)
(***************************************************************************)
\* The default ROPT of a PREC level, in units (0: the level is not listed
\* and default_ropt stays unbound).
DefaultRopt(cur_prec) ==
    CASE cur_prec = "NORMAL" -> -Dec(5, 4)
      [] cur_prec \in {"ACCURATE", "ACCURA"} -> -Dec(25, 5)
      [] cur_prec = "LOW" -> -Dec(1, 2)
      [] cur_prec = "MED" -> -Dec(2, 3)
      [] cur_prec = "HIGH" -> -Dec(4, 4)
      [] OTHER -> 0

\* Lines 595-616: ROPT.
CheckRopt(m) ==
    LET cur_prec == Get(m.parameters, "PREC", PyStr("Normal"))
        default_ropt == DefaultRopt(upper(cur_prec.s))
        cur_ropt == Get(m.parameters, "ROPT", PyList(<<PyFloat(default_ropt)>>))
    IN IF m.status # "ok" THEN m
       ELSE IF upper(str(Get(m.parameters, "LREAL", PyStr("FALSE")))) # "TRUE" THEN m
       ELSE IF cur_prec.t # "str" THEN Raise(m, "AttributeError")
       ELSE IF default_ropt = 0 THEN Raise(m, "UnboundLocalError")
       ELSE IF cur_ropt.t # "list" \/ ~AllNumbers(cur_ropt.l) THEN Raise(m, "TypeError")
       ELSE IF \E i \in 1..Len(cur_ropt.l) : cur_ropt.l[i].v < default_ropt
            THEN AppendReason(m, Msg("INPUT SETTINGS", "ROPT", "should be, or stricter", cur_ropt,
                                     PyFloat(default_ropt), PyNone))
       ELSE m

\* _check_precision_params that takes a reference without PREC for one of a
\* tier it knows.
_check_precision_params_unless_unspecified(m) ==
    LET default_prec == PyStr("NORMAL")
        reference == Get(m.valid_input_set, "PREC", PyStr("ACCURATE"))
        valid_precs == StrList(<<"ACCURATE", "ACCURA", "HIGH">>)
    IN IF m.status # "ok" THEN m
       ELSE IF reference.t # "str" THEN Raise(m, "AttributeError")
       ELSE IF upper(reference.s) \notin {"ACCURATE", "HIGH"} THEN Raise(m, "ValueError")
       ELSE CheckRopt(check_parameter(m, "PREC", default_prec, valid_precs, "in", PyNone, ""))

_check_precision_params(m) ==
    LET default_prec == PyStr("NORMAL")
        reference == Get(m.valid_input_set, "PREC", default_prec)
        valid_precs == StrList(<<"ACCURATE", "ACCURA", "HIGH">>)
    IN IF m.status # "ok" THEN m
       ELSE IF reference.t # "str" THEN Raise(m, "AttributeError")
       ELSE IF upper(reference.s) \notin {"ACCURATE", "HIGH"} THEN Raise(m, "ValueError")
       ELSE CheckRopt(check_parameter(m, "PREC", default_prec, valid_precs, "in", PyNone, ""))

(***************************************************************************)
(* _check_startup_params                                                    *)
(***************************************************************************)
\* The startup group that asks for an ICHARG below 10 whatever the
\* reference's.
_check_startup_params_below_ten_always(m) ==
    LET default_icharg == Lookup(m.vasp_defaults, "ICHARG").value
        reference == Get(m.valid_input_set, "ICHARG", default_icharg)
    IN IF m.status # "ok" THEN m
       ELSE IF ~HasKey(m.vasp_defaults, "ICHARG") THEN Raise(m, "KeyError")
       ELSE IF ~IsNumber(reference) THEN Raise(m, "TypeError")
       ELSE check_parameter(m, "ICHARG", default_icharg, PyInt(9), ">=", PyNone, "")

_check_startup_params(m) ==
    LET default_icharg == Lookup(m.vasp_defaults, "ICHARG").value
        reference == Get(m.valid_input_set, "ICHARG", default_icharg)
    IN IF m.status # "ok" THEN m
       ELSE IF ~HasKey(m.vasp_defaults, "ICHARG") THEN Raise(m, "KeyError")
       ELSE IF ~IsNumber(reference) THEN Raise(m, "TypeError")
       ELSE IF reference.v < 10 * Scale
            THEN check_parameter(m, "ICHARG", default_icharg, PyInt(9), ">=", PyNone, "")
       ELSE check_parameter(m, "ICHARG", default_icharg, Get(m.valid_input_set, "ICHARG", PyNone),
                            "==", PyNone, "")

(***************************************************************************)
(* _check_symmetry_params                                                   *)
(***************************************************************************)
\* valid_isyms of lines 644-654 (an empty list: the variable stays unbound).
ValidIsyms(reference) ==
    IF "ISYM" \notin DOMAIN reference THEN <<-1, 0, 2>>
    ELSE CASE PyEq(reference["ISYM"], PyInt(3)) -> <<-1, 0, 2, 3>>
           [] PyEq(reference["ISYM"], PyInt(2)) -> <<-1, 0, 2>>
           [] PyEq(reference["ISYM"], PyInt(0)) -> <<-1, 0>>
           [] PyEq(reference["ISYM"], PyInt(-1)) -> <<-1>>
           [] OTHER -> <<>>

\* The symmetry group that accepts ISYM = 3 besides whenever hybrid exchange
\* is active in the as-run parameters.
_check_symmetry_params_hybrid_admits_three(m) ==
    LET hybrid == Truthy(Get(m.parameters, "LHFCALC", PyFalse))
        default_isym == IF hybrid THEN PyInt(3) ELSE PyInt(2)
        valid_isyms == IF hybrid /\ ValidIsyms(m.valid_input_set) # <<>>
                       THEN Append(ValidIsyms(m.valid_input_set), 3)
                       ELSE ValidIsyms(m.valid_input_set)
        m1 == check_parameter(m, "ISYM", default_isym, IntList(valid_isyms), "in", PyNone, "")
    IN IF m.status # "ok" THEN m
       ELSE IF valid_isyms = <<>> THEN Raise(m, "UnboundLocalError")
       ELSE check_parameter(m1, "SYMPREC", PyFloat(Dec(1, 5)), PyFloat(Dec(1, 3)), ">=", PyNone,
                            "If you believe that this SYMPREC value is necessary, please create a GitHub issue.")

_check_symmetry_params(m) ==
    LET default_isym == IF Truthy(Get(m.parameters, "LHFCALC", PyFalse)) THEN PyInt(3) ELSE PyInt(2)
        valid_isyms == ValidIsyms(m.valid_input_set)
        m1 == check_parameter(m, "ISYM", default_isym, IntList(valid_isyms), "in", PyNone, "")
    IN IF m.status # "ok" THEN m
       ELSE IF valid_isyms = <<>> THEN Raise(m, "UnboundLocalError")
       ELSE check_parameter(m1, "SYMPREC", PyFloat(Dec(1, 5)), PyFloat(Dec(1, 3)), ">=", PyNone,
                            "If you believe that this SYMPREC value is necessary, please create a GitHub issue.")

(***************************************************************************)
(* _check_u_params                                                          *)
(***************************************************************************)
\* x[0] if isinstance(x, list) else x
FirstIfList(x) == IF x.t = "list" THEN (IF x.l = <<>> THEN PyError("IndexError") ELSE x.l[1]) ELSE x

\* The body of the loop with the current value of every key read from the
\* as-run parameters.
CheckUEntryAsRun(m, e) ==
    LET reference == Get(m.valid_input_set, e.key, e.value)
        valid_val == IF e.key = "LDAUTYPE" THEN FirstIfList(reference) ELSE reference
        cur_val == IF e.key = "LDAUTYPE" THEN FirstIfList(Get(m.parameters, e.key, e.value))
                   ELSE Get(m.parameters, e.key, e.value)
    IN IF m.status # "ok" \/ e.tag # "dft+u" THEN m
       ELSE IF IsError(cur_val) \/ IsError(valid_val) THEN Raise(m, "IndexError")
       ELSE IF ~PyEq(cur_val, valid_val)
            THEN AppendReason(m, Msg("INPUT SETTINGS", e.key, "should be set to", cur_val,
                                     valid_val, PyNone))
       ELSE m

\* The body of the loop for one entry.
CheckUEntry(m, e) ==
    LET reference == Get(m.valid_input_set, e.key, e.value)
        valid_val == IF e.key = "LDAUTYPE" THEN FirstIfList(reference) ELSE reference
        cur_val == IF e.key = "LDAUTYPE" THEN FirstIfList(Get(m.parameters, e.key, e.value))
                   ELSE Get(m.incar, e.key, e.value)
    IN IF m.status # "ok" \/ e.tag # "dft+u" THEN m
       ELSE IF IsError(cur_val) \/ IsError(valid_val) THEN Raise(m, "IndexError")
       ELSE IF ~PyEq(cur_val, valid_val)
            THEN AppendReason(m, Msg("INPUT SETTINGS", e.key, "should be set to", cur_val,
                                     valid_val, PyNone))
       ELSE m

RECURSIVE CheckU(_, _)
CheckU(m, i) ==
    IF i > Len(m.vasp_defaults) THEN m
    ELSE CheckU(CheckUEntry(m, m.vasp_defaults[i]), i + 1)

_check_u_params(m) ==
    IF m.status # "ok" THEN m
    ELSE IF ~HasKey(m.vasp_defaults, "LDAU") THEN Raise(m, "KeyError")
    ELSE IF Truthy(Get(m.parameters, "LDAU", Lookup(m.vasp_defaults, "LDAU").value))
         THEN CheckU(m, 1)
    ELSE m

(***************************************************************************)
(* _check_incar: the sweep and the twelve rule groups, one after another    *)
(***************************************************************************)
\* The stages with the hybrid group run before the FFT group.
StagesHybridBeforeFft ==
    <<"sweep", "electronic", "projector", "hybrid", "fft", "ionic", "ismear_and_sigma",
      "lmaxmix_and_lmaxtau", "misc", "precision", "startup", "symmetry", "u">>

\* The stages in the order lines 43-83 run them.
Stages ==
    <<"sweep", "electronic", "projector", "fft", "hybrid", "ionic", "ismear_and_sigma",
      "lmaxmix_and_lmaxtau", "misc", "precision", "startup", "symmetry", "u">>

\* What one stage does to the store.
RunStage(m, name) ==
    CASE name = "sweep" -> Sweep(m)
      [] name = "electronic" -> _check_electronic_params(m)
      [] name = "projector" -> _check_electronic_projector_params(m)
      [] name = "fft" -> _check_fft_params(m)
      [] name = "hybrid" -> _check_hybrid_functional_params(m)
      [] name = "ionic" -> _check_ionic_params(m)
      [] name = "ismear_and_sigma" -> _check_ismear_and_sigma(m)
      [] name = "lmaxmix_and_lmaxtau" -> _check_lmaxmix_and_lmaxtau(m)
      [] name = "misc" -> _check_misc_params(m)
      [] name = "precision" -> _check_precision_params(m)
      [] name = "startup" -> _check_startup_params(m)
      [] name = "symmetry" -> _check_symmetry_params(m)
      [] name = "u" -> _check_u_params(m)

\* Where a stage stands in the order of the run.
Position(name) == CHOOSE i \in 1..Len(Stages) : Stages[i] = name

\* The stage is the next one of the run.
InTurn(name) == \A other \in pending : Position(name) <= Position(other)

\* One stage of the run; the last one returns the reasons list.
Stage(name) ==
    /\ pc = "running"
    /\ name \in pending
    /\ \E m \in {RunStage(Store, name)} :
       LET ended == IF m.status # "ok" THEN "raised"
                    ELSE IF pending = {name} THEN "done" ELSE "running"
       IN /\ reasons' = m.reasons
          /\ warnings' = m.warnings
          /\ stdout' = m.stdout
          /\ parameters' = m.parameters
          /\ incar' = m.incar
          /\ valid_input_set' = m.valid_input_set
          /\ task' = m.task
          /\ vasp_defaults' = m.vasp_defaults
          /\ origin' = origin \o [i \in 1..(Len(m.reasons) - Len(reasons)) |-> name]
          /\ pc' = ended
          /\ returned' = IF ended = "done" THEN m.reasons ELSE returned
          /\ first' = IF ended # "running" /\ run = 1
                      THEN [reasons |-> m.reasons, warnings |-> m.warnings, ended |-> ended]
                      ELSE first
    /\ pending' = pending \ {name}
    /\ UNCHANGED <<run, base, snapshot, call>>

\* _check_incar's next stage, in the order of the code.
CheckIncar == \E name \in pending : InTurn(name) /\ Stage(name) /\ UNCHANGED early

\* _check_incar as a whole, from stage i on: it stops at the first stage that
\* raises.
RECURSIVE RunFrom(_, _)
RunFrom(m, i) ==
    IF i > Len(Stages) \/ m.status # "ok" THEN m
    ELSE RunFrom(RunStage(m, Stages[i]), i + 1)

_check_incar(m) == RunFrom(m, 1)

\* The store of a call with two empty lists on the inputs s.
FreshStore(s) ==
    [reasons |-> <<>>, warnings |-> <<>>, stdout |-> <<>>, parameters |-> s.parameters,
     incar |-> s.incar, valid_input_set |-> s.valid_input_set, task |-> s.task,
     vasp_defaults |-> s.vasp_defaults, status |-> "ok"]

(***************************************************************************)
(* SpecCmp: one call of check_parameter on arguments drawn from CmpCalls.   *)
(***************************************************************************)
\* The integers and integral floats of the comparator's inputs run to MaxNum.
MaxNum == 2

CmpNumbers ==
    {PyInt(n) : n \in -1..MaxNum} \cup {PyFloat(n * Scale) : n \in -1..MaxNum}
        \cup {PyInt(-5), PyFloat(Dec(5, 1)), PyFloat(Dec(9999, 4)), PyFloat(Dec(99, 2)), PyInf}

CmpOthers == {PyTrue, PyFalse, PyStr("A"), PyStr("AUTO"), PyNone}

CmpLists ==
    {PyList(<<PyInt(-5), PyInt(0)>>), PyList(<<PyInt(0), PyInt(1), PyInt(2)>>),
     PyList(<<PyStr("A"), PyFloat(Scale)>>)}

CmpDefaults == {PyInt(0), PyInt(1), PyFloat(Dec(5, 1)), PyStr("A")}

CmpTolerances ==
    {PyNone, PyInt(0), PyFloat(Dec(1, 4)), PyFloat(Dec(1, 2)), PyFloat(-Dec(1, 4))}

CmpTags == {"ENMAX", "ISMEAR"}

\* A reason some earlier check left in the accumulator.
PriorReason == ReasonMsg("IALGO", PyInt(48), "in", PyList(<<PyInt(38)>>), "")

CmpCalls ==
    {[input_tag |-> tag, default_value |-> d, reference_value |-> r, operation |-> op,
      tolerance |-> tol, reasons |-> acc] :
        tag \in CmpTags, d \in CmpDefaults, r \in CmpNumbers \cup CmpOthers \cup CmpLists,
        op \in DOMAIN operations, tol \in CmpTolerances,
        acc \in {<<>>, <<PriorReason>>}}

\* The as-run parameters of a call: the tag absent (alone, or beside another
\* key) or present with some value.
CmpParameters(tag) ==
    {EmptyDict, Put(EmptyDict, "NSW", PyInt(0))}
        \cup {Put(EmptyDict, tag, v) : v \in CmpNumbers \cup CmpOthers \cup CmpLists}

CmpInit ==
    /\ call \in {c \in CmpCalls : c.operation # "approx" => c.tolerance = PyNone}
    /\ parameters \in CmpParameters(call.input_tag)
    /\ reasons = call.reasons
    /\ warnings = <<>>
    /\ stdout = <<>>
    /\ incar = EmptyDict
    /\ valid_input_set = EmptyDict
    /\ task = EmptyDict
    /\ vasp_defaults = <<>>
    /\ pending = {}
    /\ origin = <<>>
    /\ run = 0
    /\ base = [kind |-> "first", reasons |-> call.reasons, warnings |-> <<>>]
    /\ first = [reasons |-> <<>>, warnings |-> <<>>, ended |-> ""]
    /\ snapshot = Inputs
    /\ returned = <<>>
    /\ early = 0
    /\ pc = "call"

CallCheckParameter ==
    /\ pc = "call"
    /\ \E m \in {check_parameter(Store, call.input_tag, call.default_value,
                                   call.reference_value, call.operation, call.tolerance, "")} :
          /\ reasons' = m.reasons
          /\ warnings' = m.warnings
          /\ stdout' = m.stdout
          /\ parameters' = m.parameters
          /\ incar' = m.incar
          /\ valid_input_set' = m.valid_input_set
          /\ task' = m.task
          /\ vasp_defaults' = m.vasp_defaults
          /\ pc' = IF m.status = "ok" THEN "returned" ELSE "raised"
    /\ UNCHANGED <<pending, origin, run, base, first, snapshot, returned, early, call>>

vars ==
    <<reasons, warnings, stdout, parameters, incar, valid_input_set, task, vasp_defaults,
      pending, pc, origin, run, base, first, snapshot, returned, early, call>>

CmpNext == CallCheckParameter

SpecCmp == CmpInit /\ [][CmpNext]_vars

(***************************************************************************)
(* Claims about one call of check_parameter (checked under SpecCmp)         *)
(***************************************************************************)
\* The call has ended.
Called == pc \in {"returned", "raised"}

\* The accumulator still starts with what it held when passed in.
KeptPrefix ==
    /\ Len(reasons) >= Len(call.reasons)
    /\ SubSeq(reasons, 1, Len(call.reasons)) = call.reasons

\* The reasons the call appended.
Appended == SubSeq(reasons, Len(call.reasons) + 1, Len(reasons))

\* The value the claims say is compared: the stored one, else the default.
StoredOrDefault ==
    IF call.input_tag \in DOMAIN parameters THEN parameters[call.input_tag]
    ELSE call.default_value

\* An int or a float (not a bool), finite or not.
IsIntOrFloat(x) == x.t \in {"int", "float"}

\* C1 (as claimed): for every relational operation and every numeric current
\* and reference value, in any mix of int and float, the call returns having
\* appended exactly one reason when `reference <op> current` is false and
\* nothing when it is true.
C1_RelationalVerdictAnyMix ==
    (/\ Called
     /\ call.operation \in RelationalOps
     /\ IsIntOrFloat(StoredOrDefault)
     /\ IsIntOrFloat(call.reference_value))
    => /\ pc = "returned"
       /\ KeptPrefix
       /\ Len(Appended) =
            IF NumRel(call.operation, call.reference_value.v, StoredOrDefault.v)
            THEN 0 ELSE 1

\* C2: the value compared (and printed in the reason) is the one stored under
\* the key when the key is present and default_value when it is absent: the
\* verdict is the verdict of the comparison on that value, never on a
\* substitute.
C2_ComparesStoredOrDefault ==
    LET verdict == ValidValue(StoredOrDefault, call.reference_value, call.operation,
                              call.tolerance)
    IN /\ pc = "returned" =>
            /\ KeptPrefix
            /\ ~IsException(verdict)
            /\ Len(Appended) = IF verdict = "False" THEN 1 ELSE 0
            /\ \A i \in 1..Len(Appended) : Appended[i].cur = StoredOrDefault
       /\ pc = "raised" => IsException(verdict)

\* C2's case: the key is absent, and the default (neither zero, nor None, nor
\* the reference) fails a check that zero, None and the reference would pass.
C2_Witness ==
    /\ pc = "returned"
    /\ call.input_tag \notin DOMAIN parameters
    /\ call.operation = "=="
    /\ call.default_value = PyInt(1)
    /\ call.reference_value = PyInt(0)
    /\ Len(Appended) = 1
    /\ Appended[1].cur = PyInt(1)

\* current in reference, for a reference list.
ElementOf(x, collection) == \E i \in 1..Len(collection.l) : PyEq(collection.l[i], x)

\* C3 (as claimed): with operation `in` and a reference list, exactly one
\* reason, naming the tested key, is appended iff the current value is no
\* element of the reference; nothing is appended when it is one.
C3_MembershipNamesTestedKey ==
    (Called /\ call.operation = "in" /\ call.reference_value.t = "list")
    => /\ pc = "returned"
       /\ KeptPrefix
       /\ IF ElementOf(StoredOrDefault, call.reference_value)
          THEN Appended = <<>>
          ELSE Len(Appended) = 1 /\ Appended[1].tag = call.input_tag

\* C3 (amended): as claimed, but the reason names the key as
\* input_tag_translation prints it: ENCUT for ENMAX, every other key itself.
C3_MembershipNamesPrintedKey ==
    (Called /\ call.operation = "in" /\ call.reference_value.t = "list")
    => /\ pc = "returned"
       /\ KeptPrefix
       /\ IF ElementOf(StoredOrDefault, call.reference_value)
          THEN Appended = <<>>
          ELSE /\ Len(Appended) = 1
               /\ Appended[1].tag = (IF call.input_tag = "ENMAX" THEN "ENCUT"
                                     ELSE call.input_tag)

\* C3's case: reference [-5, 0], ISMEAR 1 got its reason.
C3_Witness ==
    /\ pc = "returned"
    /\ call.operation = "in"
    /\ call.input_tag = "ISMEAR"
    /\ call.reference_value = PyList(<<PyInt(-5), PyInt(0)>>)
    /\ StoredOrDefault = PyInt(1)
    /\ Len(Appended) = 1
    /\ Appended[1].tag = "ISMEAR"

\* A finite number (int, bool or float).
IsFinite(x) == IsNumber(x) /\ Abs(x.v) < InfUnits

\* An approx check the claim C4 covers: a float current value, a finite
\* reference, and a tolerance that is absent or a number >= 0.
ApproxCase ==
    /\ Called
    /\ call.operation = "approx"
    /\ IsFloat(StoredOrDefault)
    /\ IsFinite(StoredOrDefault)
    /\ IsFinite(call.reference_value)
    /\ call.tolerance = PyNone \/ (IsNumber(call.tolerance) /\ call.tolerance.v >= 0)

\* |current - reference| > tol * |scale|, on fixed-point numbers.
ExceedsRelative(tol, scale) ==
    Abs(StoredOrDefault.v - call.reference_value.v) > MulFloor(tol, Abs(scale))

\* C4 (as claimed): a reason iff |current - reference| > tol * |reference|,
\* tol being the supplied tolerance, 1e-4 when none is supplied.
C4_RelativeToReferenceOnly ==
    ApproxCase
    => /\ pc = "returned"
       /\ KeptPrefix
       /\ Len(Appended) =
            IF ExceedsRelative(IF call.tolerance = PyNone THEN Dec(1, 4)
                               ELSE call.tolerance.v,
                               call.reference_value.v)
            THEN 1 ELSE 0

\* C4 (amended): a reason iff |current - reference| >
\* tol * max(|current|, |reference|), tol being the supplied tolerance, 1e-4
\* when none or a zero one is supplied; there is no absolute tolerance.
C4_RelativeToLargerMagnitude ==
    ApproxCase
    => /\ pc = "returned"
       /\ KeptPrefix
       /\ Len(Appended) =
            IF ExceedsRelative(IF call.tolerance = PyNone \/ call.tolerance.v = 0
                               THEN Dec(1, 4) ELSE call.tolerance.v,
                               Max(Abs(StoredOrDefault.v), Abs(call.reference_value.v)))
            THEN 1 ELSE 0

\* C4's case: current 1.0 against reference 0.9999 with the default
\* tolerance: off by more than 1e-4 of the reference, yet no reason.
C4_Witness ==
    /\ pc = "returned"
    /\ call.operation = "approx"
    /\ call.tolerance = PyNone
    /\ StoredOrDefault = PyFloat(Scale)
    /\ call.reference_value = PyFloat(Dec(9999, 4))
    /\ Appended = <<>>

\* C5 (as claimed): an approx check of a value that is no float ends in an
\* error; it never returns normally.
C5_ApproxOnNonFloatRaises ==
    (Called /\ call.operation = "approx" /\ ~IsFloat(StoredOrDefault))
    => pc = "raised"

(***************************************************************************)
(* The calculations validated: a run that passes every check, one that      *)
(* fails a check of every stage, and what differs from them in up to        *)
(* MaxDev places.                                                           *)
(***************************************************************************)
\* {key: value, ...}
Dict(pairs) == [k \in {p[1] : p \in pairs} |-> (CHOOSE p \in pairs : p[1] = k)[2]]

\* One ionic step: its energies (in units) and the entropy term of each of
\* its electronic steps.
IonicStep(e_fr_energy, e_0_energy, electronic_steps) ==
    [e_fr_energy |-> e_fr_energy, e_0_energy |-> e_0_energy,
     electronic_steps |-> electronic_steps]

\* A relaxation of a two-site insulator that meets the reference.
ValidRun ==
    [parameters |->
        Dict({<<"ENMAX", PyInt(520)>>, <<"NELECT", PyFloat(8 * Scale)>>, <<"NBANDS", PyInt(8)>>,
              <<"ISMEAR", PyInt(0)>>, <<"SIGMA", PyFloat(Dec(5, 2))>>,
              <<"PREC", PyStr("ACCURATE")>>, <<"NSW", PyInt(99)>>, <<"IBRION", PyInt(2)>>,
              <<"EDIFF", PyFloat(Dec(1, 5))>>}),
     incar |->
        Dict({<<"ENCUT", PyInt(520)>>, <<"ISMEAR", PyInt(0)>>, <<"NSW", PyInt(99)>>}),
     valid_input_set |->
        Dict({<<"ENCUT", PyInt(520)>>, <<"PREC", PyStr("Accurate")>>, <<"LREAL", PyStr("Auto")>>,
              <<"ISMEAR", PyInt(0)>>, <<"IBRION", PyInt(2)>>}),
     task |->
        [num_sites |-> 2, charge |-> PyInt(0),
         ionic_steps |-> <<IonicStep(-10 * Scale, -10 * Scale, <<PyFloat(0), PyFloat(0)>>),
                           IonicStep(-10 * Scale - 20, -10 * Scale - 20, <<PyFloat(0)>>)>>,
         nionic_steps |-> 2,
         forces |-> PyList(<<PyFloat(Dec(1, 2)), PyFloat(Dec(2, 2))>>),
         bandgap |-> Dec(6, 1),
         magnetization |-> PyList(<<PyFloat(0), PyFloat(0)>>),
         vasp_major_version |-> 6, vasp_minor_version |-> 4,
         task_type |-> "Structure Optimization",
         fft_grid_tolerance |-> Dec(9, 1)],
     vasp_defaults |-> DefaultCatalog]

\* The same calculation run with settings that every stage objects to.
FlawedRun ==
    [ValidRun EXCEPT
        !.parameters =
            Dict({<<"ENMAX", PyInt(520)>>, <<"NELECT", PyFloat(8 * Scale)>>,
                  <<"NBANDS", PyInt(1)>>, <<"ISMEAR", PyInt(1)>>, <<"SIGMA", PyFloat(Dec(5, 2))>>,
                  <<"PREC", PyStr("NORMAL")>>, <<"NSW", PyInt(99)>>, <<"IBRION", PyInt(3)>>,
                  <<"EDIFF", PyFloat(Dec(1, 5))>>, <<"ISTART", PyInt(3)>>, <<"NGX", PyInt(1)>>,
                  <<"LHFCALC", PyTrue>>, <<"POTIM", PyInt(10)>>, <<"LMAXMIX", PyInt(0)>>,
                  <<"ICHARG", PyInt(11)>>, <<"LDAU", PyTrue>>}),
        !.incar =
            Dict({<<"ENCUT", PyInt(520)>>, <<"ISMEAR", PyInt(1)>>, <<"NSW", PyInt(99)>>,
                  <<"LREAL", PyTrue>>, <<"NGX", PyInt(1)>>, <<"IWAVPR", PyInt(1)>>,
                  <<"LDAUU", PyList(<<PyInt(1)>>)>>}),
        !.task = [@ EXCEPT !.forces = PyNone]]

\* As-run parameters that may differ: the key and its other value.
ParameterChanges ==
    {<<"ENMAX", PyInt(400)>>, <<"ENMAX", PyFloat(400 * Scale)>>, <<"IALGO", PyInt(48)>>,
     <<"NELECT", PyFloat(9 * Scale)>>, <<"NBANDS", PyInt(1)>>, <<"NBANDS", PyInt(1000)>>,
     <<"NPAR", PyInt(4)>>, <<"LNONCOLLINEAR", PyTrue>>, <<"ISPIN", PyInt(2)>>,
     <<"NGX", PyInt(10)>>, <<"AEXX", PyInt(1)>>, <<"AEXX", PyFloat(Scale)>>,
     <<"LHFCALC", PyTrue>>, <<"IBRION", PyInt(3)>>, <<"IBRION", PyInt(-1)>>,
     <<"POTIM", PyInt(10)>>, <<"POTIM", PyFloat(10 * Scale)>>, <<"NSW", PyInt(0)>>,
     <<"ISMEAR", PyInt(-5)>>, <<"ISMEAR", PyInt(1)>>, <<"SIGMA", PyFloat(Dec(3, 1))>>,
     <<"LMAXMIX", PyInt(0)>>, <<"LMAXMIX", PyInt(8)>>, <<"ICHARG", PyInt(11)>>,
     <<"LORBIT", PyInt(11)>>, <<"RWIGS", PyList(<<PyFloat(Scale)>>)>>,
     <<"VCA", PyList(<<PyFloat(Dec(5, 1))>>)>>, <<"PREC", PyStr("Normal")>>,
     <<"LREAL", PyTrue>>, <<"ROPT", PyList(<<PyFloat(-Dec(1, 3))>>)>>, <<"ISYM", PyInt(3)>>,
     <<"SYMPREC", PyFloat(Dec(1, 2))>>, <<"LDAU", PyTrue>>, <<"LDAUTYPE", PyList(<<PyInt(1)>>)>>,
     <<"ISTART", PyInt(3)>>, <<"EDIFF", PyFloat(Dec(1, 3))>>, <<"DEPER", PyFloat(Dec(2, 1))>>,
     <<"LCHIMAG", PyTrue>>}

\* Literal INCAR settings that may differ.
IncarChanges ==
    {<<"NELECT", PyFloat(9 * Scale)>>, <<"LREAL", PyStr("Auto")>>, <<"LREAL", PyTrue>>,
     <<"NGX", PyInt(10)>>, <<"METAGGA", PyStr("R2SCAN")>>, <<"LMAXTAU", PyInt(2)>>,
     <<"EFERMI", PyFloat(5 * Scale)>>, <<"EFERMI", PyStr("MIDGAP")>>, <<"IWAVPR", PyInt(1)>>,
     <<"LDAUU", PyList(<<PyInt(1)>>)>>}

\* Settings of the reference configuration that may differ.
ReferenceChanges ==
    {<<"ENCUT", PyInt(600)>>, <<"ENAUG", PyInt(1360)>>, <<"LREAL", PyFalse>>,
     <<"LHFCALC", PyTrue>>, <<"IBRION", PyInt(3)>>, <<"EDIFFG", PyFloat(-Dec(2, 2))>>,
     <<"EDIFFG", PyInt(0)>>, <<"LMAXMIX", PyInt(6)>>, <<"PREC", PyStr("Normal")>>,
     <<"ICHARG", PyInt(11)>>, <<"ISYM", PyInt(3)>>, <<"ISYM", PyInt(1)>>,
     <<"ISTART", PyInt(3)>>, <<"LDAUTYPE", PyInt(1)>>}

\* Calculation contexts that differ from t in one respect.
TaskDeviations(t) ==
    {[t EXCEPT !.charge = PyFloat(-Scale)],
     [t EXCEPT !.charge = PyNone],
     [t EXCEPT !.ionic_steps = <<IonicStep(-10 * Scale, -10 * Scale, <<PyFloat(0)>>),
                                 IonicStep(-13 * Scale, -13 * Scale, <<PyFloat(0)>>)>>],
     [t EXCEPT !.ionic_steps = <<IonicStep(-10 * Scale, -10 * Scale, <<PyFloat(0)>>),
                                 IonicStep(-10 * Scale, -10 * Scale - 500, <<PyFloat(-Dec(1, 2))>>)>>],
     [t EXCEPT !.ionic_steps = <<IonicStep(-10 * Scale, -10 * Scale, <<Missing>>),
                                 IonicStep(-10 * Scale, -10 * Scale, <<PyNone>>)>>],
     [t EXCEPT !.ionic_steps = <<IonicStep(-10 * Scale, -10 * Scale, <<PyFloat(0)>>)>>,
               !.nionic_steps = 1],
     [t EXCEPT !.forces = PyNone],
     [t EXCEPT !.forces = PyList(<<PyFloat(Dec(1, 2)), PyFloat(Dec(1, 1))>>)],
     [t EXCEPT !.bandgap = 0],
     [t EXCEPT !.magnetization = PyList(<<>>)],
     [t EXCEPT !.vasp_major_version = 5],
     [t EXCEPT !.vasp_minor_version = 3],
     [t EXCEPT !.vasp_major_version = 7, !.vasp_minor_version = 0],
     [t EXCEPT !.task_type = "NSCF Uniform"]}

\* The calculations that differ from s in one place.
Deviations(s) ==
    {[s EXCEPT !.parameters = Put(@, c[1], c[2])] : c \in ParameterChanges}
        \cup {[s EXCEPT !.parameters = Del(@, k)] : k \in {"NELECT", "NBANDS", "PREC"}}
        \cup {[s EXCEPT !.incar = Put(@, c[1], c[2])] : c \in IncarChanges}
        \cup {[s EXCEPT !.valid_input_set = Put(@, c[1], c[2])] : c \in ReferenceChanges}
        \cup {[s EXCEPT !.valid_input_set = Del(@, k)] : k \in {"ENCUT", "PREC", "LREAL"}}
        \cup {[s EXCEPT !.task = t] : t \in TaskDeviations(s.task)}

\* A calculation differs from ValidRun or FlawedRun in at most MaxDev places.
MaxDev == 1

RECURSIVE Deviated(_, _)
Deviated(S, k) ==
    IF k = 0 THEN S ELSE Deviated(S \cup UNION {Deviations(s) : s \in S}, k - 1)

Scenarios == Deviated({ValidRun, FlawedRun}, MaxDev)

(***************************************************************************)
(* Spec: _check_incar called on a calculation, and up to MaxRuns times in   *)
(* all on the same inputs.                                                  *)
(***************************************************************************)
MaxRuns == 2

\* No check_parameter call is under test.
NoCall ==
    [input_tag |-> "", default_value |-> PyNone, reference_value |-> PyNone,
     operation |-> "", tolerance |-> PyNone, reasons |-> <<>>]

Init ==
    /\ \E s \in Scenarios :
            /\ parameters = s.parameters
            /\ incar = s.incar
            /\ valid_input_set = s.valid_input_set
            /\ task = s.task
            /\ vasp_defaults = s.vasp_defaults
    /\ reasons = <<>>
    /\ warnings = <<>>
    /\ stdout = <<>>
    /\ pending = {Stages[i] : i \in 1..Len(Stages)}
    /\ pc = "running"
    /\ origin = <<>>
    /\ run = 1
    /\ base = [kind |-> "first", reasons |-> <<>>, warnings |-> <<>>]
    /\ first = [reasons |-> <<>>, warnings |-> <<>>, ended |-> ""]
    /\ snapshot = Inputs
    /\ returned = <<>>
    /\ early = 0
    /\ call = NoCall

\* The caller passes the lists of the run before to another run.
RunAgain ==
    /\ pc \in {"done", "raised"}
    /\ run < MaxRuns
    /\ run' = run + 1
    /\ pending' = {Stages[i] : i \in 1..Len(Stages)}
    /\ pc' = "running"
    /\ base' = [kind |-> "again", reasons |-> reasons, warnings |-> warnings]
    /\ UNCHANGED <<reasons, warnings, stdout, parameters, incar, valid_input_set, task,
                   vasp_defaults, origin, first, snapshot, returned, early, call>>

\* The caller starts another run with two new empty lists.
RunFresh ==
    /\ pc \in {"done", "raised"}
    /\ run < MaxRuns
    /\ run' = run + 1
    /\ pending' = {Stages[i] : i \in 1..Len(Stages)}
    /\ pc' = "running"
    /\ reasons' = <<>>
    /\ warnings' = <<>>
    /\ origin' = <<>>
    /\ base' = [kind |-> "fresh", reasons |-> <<>>, warnings |-> <<>>]
    /\ UNCHANGED <<stdout, parameters, incar, valid_input_set, task, vasp_defaults, first,
                   snapshot, returned, early, call>>

Next == CheckIncar \/ RunAgain \/ RunFresh

Spec == Init /\ [][Next]_vars

(***************************************************************************)
(* SpecAnyOrder: one run that takes up to MaxOvertaken stages out of turn,  *)
(* each before any number of the stages the code puts before it.            *)
(***************************************************************************)
MaxOvertaken == 1

CheckIncarAnyOrder ==
    \E name \in pending :
        /\ early' = IF InTurn(name) THEN early ELSE early + 1
        /\ early' <= MaxOvertaken
        /\ Stage(name)

NextAnyOrder == CheckIncarAnyOrder

SpecAnyOrder == Init /\ [][NextAnyOrder]_vars

(***************************************************************************)
(* Claims about runs of _check_incar                                        *)
(***************************************************************************)
\* a is a prefix of b
IsPrefix(a, b) == Len(a) <= Len(b) /\ SubSeq(b, 1, Len(a)) = a

\* The run has ended, by returning or by an exception.
Ended == pc \in {"done", "raised"}

\* The place of a stage in the order the claim C6 gives.
ClaimedRank(name) ==
    CASE name = "sweep" -> 0
      [] name = "electronic" -> 1
      [] name = "projector" -> 2
      [] name = "fft" -> 3
      [] name = "hybrid" -> 4
      [] name = "ionic" -> 5
      [] name = "ismear_and_sigma" -> 6
      [] name = "lmaxmix_and_lmaxtau" -> 7
      [] name = "misc" -> 8
      [] name = "precision" -> 9
      [] name = "startup" -> 10
      [] name = "symmetry" -> 11
      [] name = "u" -> 12

\* C6: in the reasons of one call the sweep's reasons come first and then
\* each group's reasons as one block, in the order electronic, projector,
\* FFT, hybrid, ionic, smearing, LMAXMIX/LMAXTAU, misc, precision, startup,
\* symmetry, Hubbard-U: no reason of a later stage precedes one of an earlier
\* stage; what the list held when passed in stays in front, and the list
\* returned is that accumulator.
C6_ReasonsInStageOrder ==
    /\ Len(origin) = Len(reasons)
    /\ IsPrefix(base.reasons, reasons)
    /\ \A i \in (Len(base.reasons) + 1)..(Len(reasons) - 1) :
            ClaimedRank(origin[i]) <= ClaimedRank(origin[i + 1])
    /\ pc = "done" => returned = reasons

\* C6's case: a run has returned with reasons of the sweep and of every one
\* of the twelve groups.
C6_Witness ==
    /\ pc = "done"
    /\ {origin[i] : i \in (Len(base.reasons) + 1)..Len(origin)}
            = {Stages[i] : i \in 1..Len(Stages)}

\* C7: at every step of a run the reasons and the warnings lists extend what
\* they held before (nothing is removed, reordered, rewritten or
\* deduplicated), and a run on the lists of the run before appends the
\* messages of the first run a second time.
C7_AppendOnly ==
    [][/\ run' = run => IsPrefix(reasons, reasons') /\ IsPrefix(warnings, warnings')
       /\ (pc' \in {"done", "raised"} /\ base'.kind = "again")
            => /\ reasons' = base'.reasons \o first'.reasons
               /\ warnings' = base'.warnings \o first'.warnings]_vars

\* C7's case: a second run on the lists of the first has returned, and the
\* lists hold the reasons and the warnings of the first run twice.
C7_Witness ==
    /\ pc = "done"
    /\ base.kind = "again"
    /\ Len(first.reasons) >= 2
    /\ first.warnings # <<>>
    /\ Len(reasons) = 2 * Len(first.reasons)
    /\ Len(warnings) = 2 * Len(first.warnings)

\* C8: a run changes none of its inputs: the as-run parameters, the literal
\* INCAR, the reference configuration, the calculation context and the
\* default catalog hold after every stage, and after _check_incar, what they
\* held before the first run, also when the hybrid group derives defaults.
C8_InputsUnchanged == Inputs = snapshot

\* C8's case: a run on a hybrid reference (LHFCALC true, as-run AEXX absent,
\* so the hybrid group derived its defaults) has returned with reasons.
C8_Witness ==
    /\ pc = "done"
    /\ "LHFCALC" \in DOMAIN valid_input_set
    /\ Truthy(valid_input_set["LHFCALC"])
    /\ \E i \in 1..Len(origin) : origin[i] = "hybrid"
    /\ reasons # <<>>

\* C9: a second run on the same inputs with two new empty lists ends as the
\* first run did, with the same reasons and the same warnings in the same
\* order.
C9_FreshRunsAgree ==
    (Ended /\ base.kind = "fresh")
    => /\ reasons = first.reasons
       /\ warnings = first.warnings
       /\ pc = first.ended

\* C9's case: the second run, on new lists, has returned with reasons and
\* warnings.
C9_Witness ==
    /\ pc = "done"
    /\ base.kind = "fresh"
    /\ run = 2
    /\ Len(reasons) >= 2
    /\ warnings # <<>>

\* The messages of a list as a bag: each with the number of times it occurs.
BagOf(seq) ==
    [x \in {seq[i] : i \in 1..Len(seq)} |-> Cardinality({i \in 1..Len(seq) : seq[i] = x})]

\* What _check_incar, run on the same inputs in the order of the code, ends
\* with.
InOrder == _check_incar(FreshStore(snapshot))

\* C10: a run that takes the sweep and the groups in another order returns
\* iff the run in the order of the code does, and then with the same
\* reasons and the same warnings, each as often, in whatever order.
C10_AnyOrderSameMessages ==
    /\ pc = "done" =>
            /\ InOrder.status = "ok"
            /\ BagOf(reasons) = BagOf(InOrder.reasons)
            /\ BagOf(warnings) = BagOf(InOrder.warnings)
    /\ pc = "raised" => InOrder.status # "ok"

\* C10's case: a run in another order has returned with its reasons in an
\* order the code never gives them.
C10_Witness ==
    /\ pc = "done"
    /\ Len(reasons) >= 2
    /\ reasons # InOrder.reasons
    /\ \E i, j \in 1..Len(origin) : i < j /\ Position(origin[i]) > Position(origin[j])

(***************************************************************************)
(* Defects of the context data and the exceptions of the rule groups.       *)
(***************************************************************************)
\* The reference's precision tier as _check_precision_params reads it is one
\* it knows.
TierRecognized ==
    LET reference == Get(valid_input_set, "PREC", PyStr("NORMAL"))
    IN reference.t = "str" /\ upper(reference.s) \in {"ACCURATE", "HIGH"}

\* The stage the run was in when it ended: the last of those no longer
\* pending.
LastStage ==
    CHOOSE name \in {Stages[i] : i \in 1..Len(Stages)} \ pending :
        \A other \in {Stages[i] : i \in 1..Len(Stages)} \ pending :
            Position(other) <= Position(name)

\* C11: a defect of the context data a rule group needs never aborts the
\* run: only a reference precision tier that is not recognized does, so a
\* run that ended in an exception ended in the precision group, on such a
\* tier.
C11_OnlyUnrecognizedTierAborts ==
    pc = "raised" => (LastStage = "precision" /\ ~TierRecognized)

(***************************************************************************)
(* SpecGroup: one rule group called on its own, as _check_incar calls it,   *)
(* on a calculation built from ValidRun by giving the settings the group    *)
(* reads each of their values of interest.                                  *)
(***************************************************************************)
\* d with key set to value, or without key when value is Missing.
Assign(d, key, value) == IF value = Missing THEN Del(d, key) ELSE Put(d, key, value)

\* The calculations of S with the as-run parameter key given each of values.
VaryParameters(S, key, values) ==
    {[s EXCEPT !.parameters = Assign(@, key, v)] : s \in S, v \in values}

\* The calculations of S with the literal INCAR's key given each of values.
VaryIncar(S, key, values) ==
    {[s EXCEPT !.incar = Assign(@, key, v)] : s \in S, v \in values}

\* The calculations of S with the reference's key given each of values.
VaryReference(S, key, values) ==
    {[s EXCEPT !.valid_input_set = Assign(@, key, v)] : s \in S, v \in values}

\* Calculations for _check_electronic_params: NELECT in the INCAR or not, the
\* as-run NELECT, the charge of the output structure, NBANDS around its
\* bounds, and what _get_default_nbands reads.
ElectronicRuns ==
    LET a == VaryIncar({ValidRun}, "NELECT", {Missing, PyFloat(9 * Scale)})
        b == VaryParameters(a, "NELECT", {Missing, PyFloat(8 * Scale), PyFloat(7 * Scale)})
        c == {[s EXCEPT !.task.charge = q] :
                s \in b, q \in {PyFloat(0), PyFloat(Scale), PyNone, Missing}}
        d == VaryParameters(c, "NBANDS", {Missing, PyInt(1), PyInt(4), PyInt(5), PyInt(32),
                                          PyInt(33), PyInt(1000)})
        e == VaryParameters(d, "MAGMOM", {Missing, PyList(<<PyFloat(-5 * Scale), PyFloat(-5 * Scale)>>),
                                          PyList(<<PyFloat(Scale), PyFloat(Scale)>>)})
        f == VaryParameters(e, "ISPIN", {PyInt(1), PyInt(2)})
        g == VaryParameters(f, "LNONCOLLINEAR", {Missing, PyTrue})
        h == VaryParameters(g, "NPAR", {Missing, PyInt(4)})
    IN {[s EXCEPT !.task.num_sites = n] : s \in h, n \in {2, 8}}

\* Calculations for _check_precision_params: the reference's PREC, the
\* as-run PREC, and real-space projection on or off.
PrecisionRuns ==
    LET a == VaryReference({ValidRun}, "PREC", {Missing, PyStr("Accurate"), PyStr("accurate"),
                                                PyStr("HIGH"), PyStr("high"), PyStr("Normal")})
        b == VaryParameters(a, "PREC", {Missing, PyStr("ACCURATE"), PyStr("ACCURA"), PyStr("HIGH"),
                                        PyStr("NORMAL"), PyStr("Accurate")})
    IN VaryParameters(b, "LREAL", {Missing, PyTrue})

\* Two ionic steps whose e_0_energy differs by change (in units).
StepsApart(change) ==
    <<IonicStep(-10 * Scale, -10 * Scale, <<PyFloat(0)>>),
      IonicStep(-10 * Scale - 20, -10 * Scale - change, <<PyFloat(0)>>)>>

\* Calculations for _check_ionic_params: the as-run NSW, one ionic step or
\* two with the last energies close or apart, forces (by their norms) absent,
\* small or large, and the reference's EDIFFG and EDIFF.
IonicRuns ==
    LET a == VaryParameters({ValidRun}, "NSW", {Missing, PyInt(0), PyInt(99)})
        b == {[s EXCEPT !.task.ionic_steps = StepsApart(c)] : s \in a, c \in {0, 20, 100, 101, 600}}
                \cup {[s EXCEPT !.task.ionic_steps = <<IonicStep(-10 * Scale, -10 * Scale, <<PyFloat(0)>>)>>,
                                !.task.nionic_steps = 1] : s \in a}
        c == {[s EXCEPT !.task.forces = f] :
                s \in b, f \in {PyNone, PyList(<<PyFloat(Dec(1, 2)), PyFloat(Dec(2, 2))>>),
                                 PyList(<<PyFloat(Dec(1, 2)), PyFloat(Dec(5, 2))>>),
                                 PyList(<<PyFloat(Dec(1, 2)), PyFloat(Dec(1, 1))>>)}}
        d == VaryReference(c, "EDIFFG", {Missing, PyFloat(-Dec(2, 2)), PyFloat(Dec(5, 3)), PyInt(0)})
    IN VaryReference(d, "EDIFF", {Missing, PyFloat(Dec(1, 5))})

\* The entropy terms an ionic step's electronic steps may carry: none
\* (key absent, or None), zero, and values around 0.001 eV per site for two
\* sites.
EentropyCases ==
    {<<PyFloat(0)>>, <<PyFloat(Dec(1, 2))>>, <<PyFloat(0), PyFloat(-Dec(1, 2))>>,
     <<PyFloat(Dec(2, 3))>>, <<PyFloat(Dec(201, 5))>>, <<Missing, PyNone>>,
     <<Missing, PyFloat(Dec(1, 2))>>}

\* Calculations for _check_ismear_and_sigma: the bandgap around 1e-4, the
\* as-run NSW and ISMEAR, and one or two ionic steps with each of the
\* entropy cases.
SmearingRuns ==
    LET a == {[s EXCEPT !.task.bandgap = g] :
                s \in {ValidRun}, g \in {0, Dec(1, 4), Dec(11, 5), Dec(6, 1)}}
        b == VaryParameters(a, "NSW", {Missing, PyInt(0), PyInt(99)})
        c == VaryParameters(b, "ISMEAR", {Missing, PyInt(-5), PyInt(-4), PyInt(0), PyInt(1),
                                          PyInt(2)})
    IN {[s EXCEPT !.task.ionic_steps = <<IonicStep(-10 * Scale, -10 * Scale, e)>>,
                  !.task.nionic_steps = 1] : s \in c, e \in EentropyCases}
        \cup {[s EXCEPT !.task.ionic_steps = <<IonicStep(-10 * Scale, -10 * Scale, <<Missing>>),
                                               IonicStep(-10 * Scale, -10 * Scale, e)>>] :
                s \in c, e \in EentropyCases}

\* Calculations for _check_lmaxmix_and_lmaxtau: the as-run and the
\* reference's LMAXMIX, the task type, the as-run ICHARG around 10, and a
\* meta-GGA or not.
LmaxmixRuns ==
    LET a == VaryParameters({ValidRun}, "LMAXMIX", {Missing, PyInt(0), PyInt(2), PyInt(4),
                                                    PyInt(6), PyInt(7), PyInt(8)})
        b == VaryReference(a, "LMAXMIX", {Missing, PyInt(4), PyInt(6)})
        c == {[s EXCEPT !.task.task_type = k] :
                s \in b, k \in {"Structure Optimization", "Static", "NSCF Uniform", "NSCF Line"}}
        d == VaryParameters(c, "ICHARG", {Missing, PyInt(1), PyInt(9), PyInt(10), PyInt(11)})
    IN VaryIncar(d, "METAGGA", {Missing, PyStr("R2SCAN")})

\* Calculations for _check_misc_params: the version of the code around 6.4
\* and the literal INCAR's EFERMI.
MiscRuns ==
    LET a == {[s EXCEPT !.task.vasp_major_version = v[1], !.task.vasp_minor_version = v[2]] :
                s \in {ValidRun}, v \in {5, 6, 7} \X {0, 3, 4, 5}}
    IN VaryIncar(a, "EFERMI", {Missing, PyStr("LEGACY"), PyStr("MIDGAP"), PyFloat(5 * Scale)})

\* Calculations for the catalog sweep: the as-run and the reference's value
\* of the keys the sweep compares (ISTART, LCHIMAG, EDIFF, DEPER), and of one
\* key whose entry names no operation (LDAU).
SweepRuns ==
    LET a == VaryParameters({ValidRun}, "ISTART", {Missing, PyInt(0), PyInt(1), PyInt(2), PyInt(3)})
        b == VaryReference(a, "ISTART", {Missing, PyInt(1), PyInt(3), IntList(<<3>>)})
        c == VaryParameters(b, "LCHIMAG", {Missing, PyTrue})
        d == VaryReference(c, "LCHIMAG", {Missing, PyTrue})
        e == VaryParameters(d, "EDIFF", {Missing, PyFloat(Dec(1, 5)), PyFloat(Dec(1, 3))})
        f == VaryReference(e, "EDIFF", {Missing, PyFloat(Dec(1, 5))})
        g == VaryParameters(f, "DEPER", {Missing, PyFloat(Dec(2, 1)), PyFloat(30002)})
        h == VaryReference(g, "DEPER", {Missing, PyFloat(Dec(2, 1))})
    IN VaryParameters(h, "LDAU", {Missing, PyTrue})

\* Calculations for _check_symmetry_params: the as-run ISYM and LHFCALC, the
\* reference's ISYM over the values VASP knows, and the as-run SYMPREC.
SymmetryRuns ==
    LET levels == {Missing, PyInt(-1), PyInt(0), PyInt(1), PyInt(2), PyInt(3)}
        a == VaryParameters({ValidRun}, "ISYM", levels)
        b == VaryParameters(a, "LHFCALC", {Missing, PyTrue, PyFalse})
        c == VaryReference(b, "ISYM", levels)
    IN VaryParameters(c, "SYMPREC", {Missing, PyFloat(Dec(1, 2))})

\* Ionic steps with the given free energies (in units), each e_0_energy the
\* same as the step before it.
StepsWithFreeEnergies(energies) ==
    [i \in 1..Len(energies) |-> IonicStep(energies[i], -10 * Scale, <<PyFloat(0)>>)]

\* Calculations for the IBRION and POTIM checks of _check_ionic_params: the
\* as-run and the reference's IBRION, the as-run POTIM around 5 as int and
\* as float, and free energies that change by less than, exactly and more
\* than 1 eV per site between consecutive ionic steps.
RelaxationRuns ==
    LET a == VaryParameters({ValidRun}, "IBRION", {Missing, PyInt(-1), PyInt(0), PyInt(1),
                                                   PyInt(2), PyInt(3), PyInt(5)})
        b == VaryReference(a, "IBRION", {Missing, PyInt(-1), PyInt(0), PyInt(1), PyInt(2),
                                         PyInt(3)})
        c == VaryParameters(b, "POTIM", {Missing, PyFloat(Dec(5, 1)), PyInt(5), PyFloat(5 * Scale),
                                         PyFloat(Dec(51, 1)), PyInt(6), PyInt(10),
                                         PyFloat(10 * Scale)})
    IN {[s EXCEPT !.task.ionic_steps = StepsWithFreeEnergies(e),
                  !.task.nionic_steps = Len(e)] :
            s \in c, e \in {<<-10 * Scale>>, <<-10 * Scale, -10 * Scale - 20>>,
                            <<-10 * Scale, -12 * Scale>>, <<-10 * Scale, -8 * Scale>>,
                            <<-10 * Scale, -13 * Scale>>, <<-10 * Scale, -7 * Scale, -7 * Scale>>,
                            <<0, 10000 * Scale>>}}

\* Calculations for the SIGMA check of _check_ismear_and_sigma: the bandgap
\* around 1e-4, the as-run ISMEAR with and without the tetrahedron methods,
\* and the as-run SIGMA around 0.05 and 0.2, as float and as int.
SigmaRuns ==
    LET a == {[s EXCEPT !.task.bandgap = g] :
                s \in {ValidRun}, g \in {0, Dec(1, 4), Dec(11, 5), Scale}}
        b == VaryParameters(a, "ISMEAR", {Missing, PyInt(-5), PyInt(-4), PyInt(-2), PyInt(-1),
                                          PyInt(0), PyInt(1), PyInt(2)})
    IN VaryParameters(b, "SIGMA", {Missing, PyFloat(0), PyFloat(Dec(5, 2)), PyFloat(Dec(6, 2)),
                                   PyFloat(Dec(2, 1)), PyFloat(Dec(3, 1)), PyFloat(Dec(5, 1)),
                                   PyInt(1), PyInt(1000)})

\* Calculations for _check_u_params: LDAU, LDAUU and LDAUTYPE in the as-run
\* parameters, in the literal INCAR and in the reference, LDAUTYPE as a
\* number and as a list.
HubbardRuns ==
    LET a == VaryParameters({ValidRun}, "LDAU", {Missing, PyTrue, PyFalse})
        b == VaryIncar(a, "LDAU", {Missing, PyTrue})
        c == VaryReference(b, "LDAU", {Missing, PyTrue})
        d == VaryIncar(c, "LDAUU", {Missing, IntList(<<5, 5>>), IntList(<<1>>)})
        e == VaryParameters(d, "LDAUU", {Missing, IntList(<<5, 5>>)})
        f == VaryReference(e, "LDAUU", {Missing, IntList(<<5, 5>>)})
        g == VaryParameters(f, "LDAUTYPE", {Missing, PyInt(1), IntList(<<1>>), IntList(<<2>>),
                                            IntList(<<2, 1>>)})
        h == VaryIncar(g, "LDAUTYPE", {Missing, PyInt(1)})
    IN VaryReference(h, "LDAUTYPE", {Missing, PyInt(1), IntList(<<1>>), IntList(<<2, 1>>)})

\* Calculations for _check_startup_params: the as-run and the reference's
\* ICHARG on both sides of 10.
StartupRuns ==
    LET a == VaryParameters({ValidRun}, "ICHARG", {Missing, PyInt(0), PyInt(1), PyInt(2), PyInt(9),
                                                   PyInt(10), PyInt(11), PyInt(12)})
    IN VaryReference(a, "ICHARG", {Missing, PyInt(0), PyInt(1), PyInt(9), PyInt(10), PyInt(11),
                                   PyInt(12)})

\* Calculations for _check_fft_params: grid keys in the literal INCAR or
\* not, their as-run values around the requirement, the as-run ENMAX below,
\* at and above the reference's ENCUT, and the tolerance factor.
FftRuns ==
    LET a == VaryIncar({ValidRun}, "NGX", {Missing, PyInt(1)})
        b == VaryIncar(a, "NGZF", {Missing, PyInt(1)})
        c == VaryParameters(b, "NGX", {Missing, PyInt(1), PyInt(20), PyInt(21), PyInt(22)})
        d == VaryParameters(c, "NGXF", {Missing, PyInt(42), PyInt(43)})
        e == VaryParameters(d, "NGY", {Missing, PyInt(1)})
        f == VaryParameters(e, "NGZF", {Missing, PyInt(1), PyInt(43)})
        g == VaryParameters(f, "ENMAX", {PyInt(400), PyInt(520), PyInt(600)})
        h == VaryReference(g, "ENCUT", {PyInt(520), PyInt(600)})
    IN {[s EXCEPT !.task.fft_grid_tolerance = t] : s \in h, t \in {Dec(9, 1), Scale}}

\* Calculations for _check_electronic_projector_params: the reference's
\* LREAL specified (Auto, A, False as a bool or as text, True) or not, the
\* literal INCAR's LREAL, and the as-run LREAL.
ProjectorRuns ==
    LET a == VaryReference({ValidRun}, "LREAL", {Missing, PyStr("Auto"), PyStr("A"), PyFalse,
                                                 PyStr("False"), PyTrue})
        b == VaryIncar(a, "LREAL", {Missing, PyTrue, PyFalse, PyStr("Auto"), PyStr("A"),
                                    PyStr("False")})
    IN VaryParameters(b, "LREAL", {Missing, PyTrue})

\* The calls of SpecGroup: the group and the calculation it is called on.
GroupCalls ==
    {[name |-> "electronic", inputs |-> s] : s \in ElectronicRuns}
        \cup {[name |-> "precision", inputs |-> s] : s \in PrecisionRuns}
        \cup {[name |-> "ionic", inputs |-> s] : s \in IonicRuns \cup RelaxationRuns}
        \cup {[name |-> "ismear_and_sigma", inputs |-> s] : s \in SmearingRuns \cup SigmaRuns}
        \cup {[name |-> "lmaxmix_and_lmaxtau", inputs |-> s] : s \in LmaxmixRuns}
        \cup {[name |-> "misc", inputs |-> s] : s \in MiscRuns}
        \cup {[name |-> "projector", inputs |-> s] : s \in ProjectorRuns}
        \cup {[name |-> "fft", inputs |-> s] : s \in FftRuns}
        \cup {[name |-> "sweep", inputs |-> s] : s \in SweepRuns}
        \cup {[name |-> "startup", inputs |-> s] : s \in StartupRuns}
        \cup {[name |-> "symmetry", inputs |-> s] : s \in SymmetryRuns}
        \cup {[name |-> "u", inputs |-> s] : s \in HubbardRuns}

GroupInit ==
    /\ \E c \in GroupCalls :
            /\ parameters = c.inputs.parameters
            /\ incar = c.inputs.incar
            /\ valid_input_set = c.inputs.valid_input_set
            /\ task = c.inputs.task
            /\ vasp_defaults = c.inputs.vasp_defaults
            /\ pending = {c.name}
            /\ base = [kind |-> c.name, reasons |-> <<>>, warnings |-> <<>>]
    /\ reasons = <<>>
    /\ warnings = <<>>
    /\ stdout = <<>>
    /\ pc = "calling"
    /\ origin = <<>>
    /\ run = 1
    /\ first = [reasons |-> <<>>, warnings |-> <<>>, ended |-> ""]
    /\ snapshot = Inputs
    /\ returned = <<>>
    /\ early = 0
    /\ call = NoCall

\* The call of the group: it returns nothing, or raises.
CallGroup ==
    /\ pc = "calling"
    /\ \E name \in pending :
       \E m \in {RunStage(Store, name)} :
          /\ reasons' = m.reasons
          /\ warnings' = m.warnings
          /\ stdout' = m.stdout
          /\ parameters' = m.parameters
          /\ incar' = m.incar
          /\ valid_input_set' = m.valid_input_set
          /\ task' = m.task
          /\ vasp_defaults' = m.vasp_defaults
          /\ origin' = origin \o [i \in 1..(Len(m.reasons) - Len(reasons)) |-> name]
          /\ pc' = IF m.status = "ok" THEN "returned" ELSE "raised"
          /\ pending' = pending \ {name}
    /\ UNCHANGED <<run, base, first, snapshot, returned, early, call>>

GroupNext == CallGroup

SpecGroup == GroupInit /\ [][GroupNext]_vars

\* The call of the group name is over, by its return or by an exception.
GroupOver(name) == pc \in {"returned", "raised"} /\ base.kind = name

\* The reasons about tag, in the order appended.
ReasonsAbout(tag) == SelectSeq(reasons, LAMBDA r : r.tag = tag)

\* The warnings about tag, in the order appended.
WarningsAbout(tag) == SelectSeq(warnings, LAMBDA r : r.tag = tag)

\* C13: with NELECT absent from the literal INCAR the electronic group
\* appends no NELECT reason whatever the charge of the output structure;
\* with NELECT in the literal INCAR, and a charge and an as-run NELECT that
\* are numbers, it appends one NELECT reason iff the charge is not zero, and
\* the reason gives as-run NELECT plus the charge as the corrected count.
C13_NelectReasonIffCharged ==
    GroupOver("electronic") =>
        LET cur_nelect == Get(parameters, "NELECT", PyNone)
        IN /\ "NELECT" \notin DOMAIN incar =>
                ReasonsAbout("NELECT") = <<>> /\ ReasonsAbout("NELECT / POTCAR") = <<>>
           /\ ("NELECT" \in DOMAIN incar /\ IsNumber(task.charge) /\ IsNumber(cur_nelect)) =>
                /\ ReasonsAbout("NELECT / POTCAR") = <<>>
                /\ Len(ReasonsAbout("NELECT")) = (IF task.charge.v # 0 THEN 1 ELSE 0)
                /\ \A i \in 1..Len(ReasonsAbout("NELECT")) :
                        ReasonsAbout("NELECT")[i].val = PyFloat(cur_nelect.v + task.charge.v)

\* C13's case: NELECT is in the literal INCAR, the structure has a charge of
\* 1.0 and the reason gives 9.0 for the as-run NELECT of 8.0.
C13_Witness ==
    /\ GroupOver("electronic")
    /\ "NELECT" \in DOMAIN incar
    /\ task.charge = PyFloat(Scale)
    /\ Len(ReasonsAbout("NELECT")) = 1
    /\ ReasonsAbout("NELECT")[1].val = PyFloat(9 * Scale)

\* The precision tier of the reference, upper-cased, with the tier that
\* stands for a reference without PREC.
ReferenceTier(unspecified) == upper(Get(valid_input_set, "PREC", PyStr(unspecified)).s)

\* How many PREC reasons the as-run PREC (default NORMAL) calls for.
PrecReasonsDue ==
    IF Get(parameters, "PREC", PyStr("NORMAL")) \in
            {PyStr("ACCURATE"), PyStr("ACCURA"), PyStr("HIGH")}
    THEN 0 ELSE 1

\* C12 as stated: the precision group raises exactly when the reference
\* specifies a PREC tier other than ACCURATE or HIGH (in any case), so never
\* for a reference without PREC; when it does not raise it appends one PREC
\* reason iff the as-run PREC is not ACCURATE, ACCURA or HIGH.
C12_RaisesIffSpecifiedTierUnknown ==
    GroupOver("precision") =>
        /\ pc = "raised" <=> ("PREC" \in DOMAIN valid_input_set
                                /\ ReferenceTier("NORMAL") \notin {"ACCURATE", "HIGH"})
        /\ pc = "returned" => Len(ReasonsAbout("PREC")) = PrecReasonsDue

\* C12, amended: the precision group raises its configuration error
\* exactly when the reference's PREC, NORMAL for a reference without PREC,
\* is not ACCURATE or HIGH in any case, and then appends nothing; otherwise
\* it appends one PREC reason iff the as-run PREC is not ACCURATE, ACCURA or
\* HIGH.
C12_RaisesIffTierUnknownOrUnspecified ==
    GroupOver("precision") =>
        IF ReferenceTier("NORMAL") \in {"ACCURATE", "HIGH"}
        THEN /\ pc = "returned"
             /\ Len(ReasonsAbout("PREC")) = PrecReasonsDue
        ELSE /\ pc = "raised"
             /\ reasons = <<>>
             /\ _check_precision_params(FreshStore(snapshot)).status = "ValueError"

\* C12's case: the group was called on a reference without PREC and raised.
C12_Witness ==
    /\ GroupOver("precision")
    /\ "PREC" \notin DOMAIN valid_input_set
    /\ pc = "raised"

\* C14: with NELECT in the literal INCAR and a charge that cannot be
\* determined (no usable charge value, or no as-run NELECT), the electronic
\* group appends the diagnostic reason about NELECT / POTCAR and goes on to
\* its end: it neither raises nor passes in silence.
C14_UndeterminedChargeDiagnosed ==
    (/\ GroupOver("electronic")
     /\ "NELECT" \in DOMAIN incar
     /\ ~IsNumber(task.charge) \/ "NELECT" \notin DOMAIN parameters)
    => /\ pc = "returned"
       /\ Len(ReasonsAbout("NELECT / POTCAR")) = 1

\* ceil(NELECT / 2) + 1, for an as-run NELECT in units.
MinBands(nelect) == -((-nelect.v) \div (2 * Scale)) + 1

\* C15: with minBands = ceil(NELECT/2) + 1 and the default band count of
\* _get_default_nbands, the electronic group appends an NBANDS reason iff the
\* as-run NBANDS is below minBands or above 4 x default; and whatever the
\* electron count, the ion count, MAGMOM, LNONCOLLINEAR and NPAR, a run whose
\* NBANDS is absent or equal to the default gets no NBANDS reason, since
\* minBands <= default <= 4 x default.
C15_DefaultBandsAlwaysValid ==
    (GroupOver("electronic") /\ pc = "returned") =>
        LET nelect == parameters["NELECT"]
            default == _get_default_nbands(task.num_sites, parameters, nelect).v \div Scale
            nbands == Get(parameters, "NBANDS", PyInt(default)).v \div Scale
        IN /\ (ReasonsAbout("NBANDS") # <<>>)
                <=> (nbands < MinBands(nelect) \/ nbands > 4 * default)
           /\ MinBands(nelect) <= default /\ default <= 4 * default
           /\ nbands = default => ReasonsAbout("NBANDS") = <<>>

\* The energy threshold of the convergence check, in units: the reference's
\* EDIFFG when positive, else ten times its EDIFF (default 1e-4).
EnergyThreshold ==
    LET ediff == Get(valid_input_set, "EDIFF", PyFloat(Dec(1, 4)))
        ediffg == Get(valid_input_set, "EDIFFG", PyFloat(10 * ediff.v))
    IN IF ediffg.v > 0 THEN ediffg.v ELSE 10 * ediff.v

\* The force threshold, in units: 0.05 for a positive reference EDIFFG, else
\* the magnitude of the reference's EDIFFG.
ForceThreshold ==
    LET ediff == Get(valid_input_set, "EDIFF", PyFloat(Dec(1, 4)))
        ediffg == Get(valid_input_set, "EDIFFG", PyFloat(10 * ediff.v))
    IN IF ediffg.v > 0 THEN Dec(5, 2) ELSE -ediffg.v

\* The last two ionic steps differ in energy by no more than the threshold.
EnergyCriterionMet ==
    LET n == Len(task.ionic_steps)
    IN Abs(task.ionic_steps[n].e_0_energy - task.ionic_steps[n - 1].e_0_energy)
            <= EnergyThreshold

\* There are forces, and no atom's force norm exceeds the threshold.
ForceCriterionMet ==
    /\ task.forces # PyNone
    /\ \A i \in 1..Len(task.forces.l) : task.forces.l[i].v <= ForceThreshold

\* C16 as stated: whenever the run has at least two ionic steps the
\* CONVERGENCE reason is appended iff the energy criterion and the force
\* criterion both fail, whatever the as-run NSW.
C16_ConvergedByEitherWhateverNsw ==
    (GroupOver("ionic") /\ pc = "returned" /\ task.nionic_steps >= 2) =>
        (ReasonsAbout("EDIFFG") # <<>>) <=> (~EnergyCriterionMet /\ ~ForceCriterionMet)

\* C16, amended: for a run with at least two ionic steps and an as-run NSW
\* (default 0) other than 0 the CONVERGENCE reason is appended iff both
\* criteria fail; for an NSW of 0, or fewer than two ionic steps, the energy
\* criterion is not consulted and the reason is appended iff the force
\* criterion fails.  It is appended once.
C16_ConvergedByEitherWhenRelaxing ==
    (GroupOver("ionic") /\ pc = "returned") =>
        LET relaxing == task.nionic_steps >= 2
                            /\ ~PyEq(Get(parameters, "NSW", PyInt(0)), PyInt(0))
            due == IF relaxing THEN ~EnergyCriterionMet /\ ~ForceCriterionMet
                   ELSE ~ForceCriterionMet
        IN Len(ReasonsAbout("EDIFFG")) = (IF due THEN 1 ELSE 0)

\* C16's case: a run of two ionic steps with NSW 0 whose last energies agree
\* within the threshold but whose forces exceed theirs gets the CONVERGENCE
\* reason.
C16_Witness ==
    /\ GroupOver("ionic")
    /\ pc = "returned"
    /\ task.nionic_steps = 2
    /\ Get(parameters, "NSW", PyNone) = PyInt(0)
    /\ EnergyCriterionMet
    /\ task.forces # PyNone /\ ~ForceCriterionMet
    /\ Len(ReasonsAbout("EDIFFG")) = 1

\* The reasons about the entropy term.
EntropyReasons == SelectSeq(reasons, LAMBDA r : r.op = "The entropy term (T*S) is too large")

\* C17: the smearing group appends the entropy reason iff some electronic
\* step of some ionic step carries an entropy term whose magnitude per site
\* exceeds 0.001 eV, whatever ISMEAR; steps without a term are skipped, and a
\* run none of whose steps carries one ends with no entropy reason.
C17_EntropyReasonIffTermTooLarge ==
    GroupOver("ismear_and_sigma") =>
        LET terms == UNION {{task.ionic_steps[i].electronic_steps[j] :
                                j \in 1..Len(task.ionic_steps[i].electronic_steps)} :
                            i \in 1..Len(task.ionic_steps)} \ {Missing, PyNone}
        IN /\ pc = "returned"
           /\ (EntropyReasons # <<>>)
                <=> (\E e \in terms : Abs(e.v) > task.num_sites * Dec(1, 3))

\* C20: the accepted ISMEAR values are -5 and 0 for a bandgap above 1e-4 eV
\* and 0, 1 and 2 otherwise; for a metal -5 is accepted besides only when the
\* run has no ionic relaxation steps, so a metal run of more than one ionic
\* step with ISMEAR -5 gets an ISMEAR reason.
C20_MetalRelaxationRejectsTetrahedron ==
    GroupOver("ismear_and_sigma") =>
        LET ismear == Get(parameters, "ISMEAR", PyInt(1)).v \div Scale
            flagged == ReasonsAbout("ISMEAR") # <<>>
        IN /\ task.bandgap > Dec(1, 4) => (flagged <=> ismear \notin {-5, 0})
           /\ (task.bandgap <= Dec(1, 4) /\ ismear \in {0, 1, 2}) => ~flagged
           /\ (task.bandgap <= Dec(1, 4) /\ ismear \notin {-5, 0, 1, 2}) => flagged
           /\ (task.bandgap <= Dec(1, 4) /\ ismear = -5 /\ task.nionic_steps > 1) => flagged

\* C18: an as-run LMAXMIX (default 2) below the reference's (default 2) or
\* above 6 gets exactly one LMAXMIX message, in exactly one list: in reasons
\* iff the task type is NSCF_Uniform or NSCF_Line or the as-run ICHARG
\* (default 2) is 10 or more, else in warnings; an LMAXMIX from the
\* reference's to 6 gets no LMAXMIX message in either list.
C18_LmaxmixReasonOrWarning ==
    GroupOver("lmaxmix_and_lmaxtau") =>
        LET lmaxmix == Get(parameters, "LMAXMIX", PyInt(2)).v
            reference == Get(valid_input_set, "LMAXMIX", PyInt(2)).v
            outside == lmaxmix < reference \/ lmaxmix > 6 * Scale
            escalated == \/ task.task_type \in {"NSCF Uniform", "NSCF Line"}
                         \/ Get(parameters, "ICHARG", PyInt(2)).v >= 10 * Scale
        IN /\ pc = "returned"
           /\ Len(ReasonsAbout("LMAXMIX")) = (IF outside /\ escalated THEN 1 ELSE 0)
           /\ Len(WarningsAbout("LMAXMIX")) = (IF outside /\ ~escalated THEN 1 ELSE 0)

\* C18's case: a structure optimization with LMAXMIX 0 and ICHARG 10 has
\* the LMAXMIX message among its reasons and none among its warnings.
C18_Witness ==
    /\ GroupOver("lmaxmix_and_lmaxtau")
    /\ task.task_type = "Structure Optimization"
    /\ Get(parameters, "LMAXMIX", PyNone) = PyInt(0)
    /\ Get(parameters, "ICHARG", PyNone) = PyInt(10)
    /\ Len(ReasonsAbout("LMAXMIX")) = 1
    /\ WarningsAbout("LMAXMIX") = <<>>

\* C19: the EFERMI check applies to every version of the code from 6.4 on
\* (6.4, 6.5, 7.0, ...) and to none before: for such a version the misc group
\* appends an EFERMI reason iff the literal INCAR's EFERMI (default LEGACY)
\* is neither LEGACY nor MIDGAP, and for an earlier version never.
C19_EfermiFromVersion64On ==
    GroupOver("misc") =>
        LET from64 == \/ task.vasp_major_version > 6
                      \/ task.vasp_major_version = 6 /\ task.vasp_minor_version >= 4
            efermi == Get(incar, "EFERMI", PyStr("LEGACY"))
        IN (ReasonsAbout("EFERMI") # <<>>)
                <=> (from64 /\ efermi \notin {PyStr("LEGACY"), PyStr("MIDGAP")})
\* The reference the sweep is to compare the entry e against: the
\* reference configuration's value for the key, else the catalog default, and
\* for ISTART always [0, 1, 2].
SweepReference(e) ==
    IF e.key = "ISTART" THEN IntList(<<0, 1, 2>>) ELSE Get(valid_input_set, e.key, e.value)

\* The comparator finds the as-run value of the entry e (the catalog default
\* when absent) invalid against that reference.
SweepInvalid(e) ==
    IsFalsy(ValidValue(Get(parameters, e.key, e.value), SweepReference(e), e.operation,
                       e.tolerance))

\* C21: the catalog sweep calls the comparator once, and only, for each
\* catalog entry whose operation the comparator supports, with the
\* reference configuration's value for the key, else the catalog default, as
\* the reference; ISTART alone is always compared against [0, 1, 2]
\* whatever the reference configuration says, so an as-run ISTART of 3 gets
\* one ISTART reason and 0, 1, 2 (or none) get no ISTART reason.
C21_SweepComparesEachSupportedEntryOnce ==
    GroupOver("sweep") =>
        /\ pc = "returned"
        /\ \A i \in 1..Len(vasp_defaults) :
            LET e == vasp_defaults[i]
            IN IF e.operation \in DOMAIN operations
               THEN /\ Len(ReasonsAbout(e.key)) = (IF SweepInvalid(e) THEN 1 ELSE 0)
                    /\ \A j \in 1..Len(ReasonsAbout(e.key)) :
                            /\ ReasonsAbout(e.key)[j].ref = SweepReference(e)
                            /\ ReasonsAbout(e.key)[j].op = e.operation
               ELSE ReasonsAbout(e.key) = <<>>
        /\ Len(reasons) = Cardinality({i \in 1..Len(vasp_defaults) :
                                        /\ vasp_defaults[i].operation \in DOMAIN operations
                                        /\ SweepInvalid(vasp_defaults[i])})
        /\ Len(ReasonsAbout("ISTART")) =
                (IF Get(parameters, "ISTART", PyInt(0)) \in {PyInt(0), PyInt(1), PyInt(2)}
                 THEN 0 ELSE 1)

\* C21's case: the reference configuration specifies ISTART = 3 and the run
\* used ISTART = 3, and the sweep still appended the ISTART reason, against
\* [0, 1, 2].
C21_Witness ==
    /\ GroupOver("sweep")
    /\ pc = "returned"
    /\ Get(valid_input_set, "ISTART", PyNone) = PyInt(3)
    /\ Get(parameters, "ISTART", PyNone) = PyInt(3)
    /\ Len(ReasonsAbout("ISTART")) = 1
    /\ ReasonsAbout("ISTART")[1].ref = IntList(<<0, 1, 2>>)
\* Hybrid exchange is active in the as-run parameters.
HybridActive == Truthy(Get(parameters, "LHFCALC", PyFalse))

\* The ISYM the run counts as having used: the as-run value, else 3 with
\* hybrid exchange active and 2 without.
AsRunIsym == Get(parameters, "ISYM", IF HybridActive THEN PyInt(3) ELSE PyInt(2))

ClaimedIsyms ==
    LET level == Get(valid_input_set, "ISYM", Missing)
    IN CASE level = PyInt(3) -> {-1, 0, 2, 3}
         [] level = PyInt(2) -> {-1, 0, 2}
         [] level = PyInt(0) -> {-1, 0}
         [] level = PyInt(-1) -> {-1}
         [] level = Missing -> {-1, 0, 2}
         [] OTHER -> {}

\* C26: for every reference configuration the symmetry group completes
\* with a defined accepted ISYM set: {-1, 0, 2, 3} for a reference ISYM of
\* 3, {-1, 0, 2} for 2, {-1, 0} for 0, {-1} for -1 and {-1, 0, 2} for a
\* reference without ISYM; and it appends one ISYM reason iff the as-run
\* ISYM is outside the set.
C26_EveryReferenceHasIsymSet ==
    GroupOver("symmetry") =>
        /\ pc = "returned"
        /\ Len(ReasonsAbout("ISYM")) =
                (IF (AsRunIsym.v \div Scale) \in ClaimedIsyms THEN 0 ELSE 1)
        /\ \A i \in 1..Len(ReasonsAbout("ISYM")) :
                {ReasonsAbout("ISYM")[i].ref.l[j].v \div Scale :
                    j \in 1..Len(ReasonsAbout("ISYM")[i].ref.l)} = ClaimedIsyms
\* C23: the as-run IBRION (default 0) is accepted iff it is -1, 1 or 2,
\* unless the reference itself specifies an IBRION other than those, and
\* then only the reference's value is accepted; so against a reference
\* without IBRION the values -1, 1 and 2 are accepted, and an IBRION reason
\* is appended iff the value is not accepted.
C23_IbrionSetUnlessReferenceSpecifiesOther ==
    (GroupOver("ionic") /\ pc = "returned") =>
        LET standard == {PyInt(-1), PyInt(1), PyInt(2)}
            reference == Get(valid_input_set, "IBRION", Missing)
            accepted == IF reference # Missing /\ reference \notin standard THEN {reference}
                        ELSE standard
        IN Len(ReasonsAbout("IBRION")) =
                (IF Get(parameters, "IBRION", PyInt(0)) \in accepted THEN 0 ELSE 1)

\* The POTIM reasons of the comparator, about the value itself.
PotimValueReasons == SelectSeq(reasons, LAMBDA r : r.tag = "POTIM" /\ r.op = ">=")

\* The POTIM reasons about the energy change between ionic steps.
PotimEnergyReasons ==
    SelectSeq(reasons, LAMBDA r : r.tag = "POTIM" /\ r.op = "energy changed too much")

\* The largest change of e_fr_energy between consecutive ionic steps, in
\* units (0 for a single step).
LargestFreeEnergyChange ==
    LET steps == task.ionic_steps
        changes == {Abs(steps[i + 1].e_fr_energy - steps[i].e_fr_energy) :
                        i \in 1..(Len(steps) - 1)}
    IN IF changes = {} THEN 0 ELSE CHOOSE c \in changes : \A d \in changes : d <= c

\* C24: with the as-run IBRION in {1, 2, 3, 5, 6} a POTIM reason is appended
\* for every as-run POTIM above 5, int or float (default 0.5), and, with
\* more than one ionic step, a second one iff the largest change of
\* e_fr_energy between consecutive ionic steps exceeds 1 eV per site; with
\* another IBRION the upper bound of POTIM is not checked.
C24_PotimAboveFiveAndEnergyJump ==
    (GroupOver("ionic") /\ pc = "returned") =>
        LET used == Get(parameters, "IBRION", PyInt(0)) \in
                        {PyInt(1), PyInt(2), PyInt(3), PyInt(5), PyInt(6)}
            potim == Get(parameters, "POTIM", PyFloat(Dec(5, 1)))
        IN IF used
           THEN /\ Len(PotimValueReasons) = (IF potim.v > 5 * Scale THEN 1 ELSE 0)
                /\ Len(PotimEnergyReasons) =
                        (IF task.nionic_steps > 1
                              /\ LargestFreeEnergyChange > task.num_sites * Scale
                         THEN 1 ELSE 0)
           ELSE PotimValueReasons = <<>>
\* The SIGMA reasons of the comparator, about the width itself.
SigmaWidthReasons == SelectSeq(reasons, LAMBDA r : r.tag = "SIGMA" /\ r.op = ">=")

\* The largest SIGMA for the bandgap of the run, in units.
MaxSigma == IF task.bandgap > Dec(1, 4) THEN Dec(5, 2) ELSE Dec(2, 1)

\* C25: with an as-run ISMEAR (default 1) of -5, -4 or -2 the SIGMA width
\* is not compared (no SIGMA-width reason whatever SIGMA) and one warning
\* giving the implied largest SIGMA is appended; with any other ISMEAR no
\* such warning is appended and a SIGMA-width reason is appended iff the
\* as-run SIGMA (default 0.2) exceeds the largest, 0.05 for a bandgap above
\* 1e-4 eV and 0.2 otherwise.
C25_SigmaWidthUnlessTetrahedron ==
    GroupOver("ismear_and_sigma") =>
        LET ismear == Get(parameters, "ISMEAR", PyInt(1))
            sigma == Get(parameters, "SIGMA", PyFloat(Dec(2, 1)))
        IN IF ismear \in {PyInt(-5), PyInt(-4), PyInt(-2)}
           THEN /\ SigmaWidthReasons = <<>>
                /\ Len(WarningsAbout("SIGMA")) = 1
                /\ WarningsAbout("SIGMA")[1].ref = PyFloat(MaxSigma)
                /\ WarningsAbout("SIGMA")[1].cur = ismear
           ELSE /\ WarningsAbout("SIGMA") = <<>>
                /\ Len(SigmaWidthReasons) = (IF sigma.v > MaxSigma THEN 1 ELSE 0)
                /\ \A i \in 1..Len(SigmaWidthReasons) :
                        SigmaWidthReasons[i].ref = PyFloat(MaxSigma)

\* C25's case: an insulator run with ISMEAR -5 and SIGMA 1000 has no
\* SIGMA-width reason and the one warning, which gives 0.05.
C25_Witness ==
    /\ GroupOver("ismear_and_sigma")
    /\ task.bandgap = Scale
    /\ Get(parameters, "ISMEAR", PyNone) = PyInt(-5)
    /\ Get(parameters, "SIGMA", PyNone) = PyInt(1000)
    /\ SigmaWidthReasons = <<>>
    /\ Len(WarningsAbout("SIGMA")) = 1
    /\ WarningsAbout("SIGMA")[1].ref = PyFloat(Dec(5, 2))
\* The U correction is on: the as-run LDAU, else the catalog default.
UActive == Truthy(Get(parameters, "LDAU", Lookup(vasp_defaults, "LDAU").value))

\* The value of a dft+u key in the dict d, else the catalog default, a list
\* standing for its first entry in the case of LDAUTYPE.
UValue(d, e) ==
    IF e.key = "LDAUTYPE" THEN FirstIfList(Get(d, e.key, e.value)) ELSE Get(d, e.key, e.value)

\* The reasons of the U group are those due: none with the U correction
\* off, else for each dft+u key one iff the current value differs from the
\* reference's, the current value being read from the literal INCAR for the
\* keys of fromIncar and from the as-run parameters for the others.
UReasonsDue(fromIncar) ==
    /\ pc = "returned"
    /\ ~UActive => reasons = <<>>
    /\ UActive =>
        \A i \in 1..Len(vasp_defaults) :
            LET e == vasp_defaults[i]
                cur == UValue(IF e.key \in fromIncar THEN incar ELSE parameters, e)
                ref == UValue(valid_input_set, e)
            IN IF e.tag = "dft+u"
               THEN /\ Len(ReasonsAbout(e.key)) = (IF PyEq(cur, ref) THEN 0 ELSE 1)
                    /\ \A j \in 1..Len(ReasonsAbout(e.key)) :
                            ReasonsAbout(e.key)[j].cur = cur /\ ReasonsAbout(e.key)[j].ref = ref
               ELSE ReasonsAbout(e.key) = <<>>

\* C27 as stated: the U group appends nothing when the as-run LDAU (else
\* the catalog default) is false; when it is true it appends, for each key
\* tagged dft+u, one reason iff the value the calculation ran with (the
\* as-run parameter, else the catalog default) differs from the reference's
\* (else the catalog default), a list of LDAUTYPE standing for its first
\* entry.
C27_UComparesAsRunValues ==
    GroupOver("u") => UReasonsDue({})

\* C27, amended: as above, but the current value of every dft+u key other
\* than LDAUTYPE (LDAU, LDAUU, ...) is the literal INCAR's, else the catalog
\* default; only LDAUTYPE, like the LDAU flag that enables the group, is
\* read from the as-run parameters.
C27_UComparesIncarValues ==
    GroupOver("u") =>
        UReasonsDue({vasp_defaults[i].key : i \in 1..Len(vasp_defaults)} \ {"LDAUTYPE"})

\* C27's case: with the U correction on, LDAUU = [5, 5] in the literal INCAR
\* only gets the LDAUU reason, though the as-run parameters have no LDAUU.
C27_Witness ==
    /\ GroupOver("u")
    /\ pc = "returned"
    /\ UActive
    /\ Get(incar, "LDAUU", PyNone) = IntList(<<5, 5>>)
    /\ "LDAUU" \notin DOMAIN parameters
    /\ "LDAUU" \notin DOMAIN valid_input_set
    /\ Len(ReasonsAbout("LDAUU")) = 1
    /\ ReasonsAbout("LDAUU")[1].cur = IntList(<<5, 5>>)
\* C28: with a reference ICHARG (the catalog default when unspecified)
\* below 10 the startup group appends an ICHARG reason iff the as-run ICHARG
\* (the catalog default when absent) is 10 or more; with a reference ICHARG
\* of 10 or more it appends one iff the as-run ICHARG differs from the
\* reference's.
C28_IchargBelowTenOrSameAsReference ==
    GroupOver("startup") =>
        LET default == Lookup(vasp_defaults, "ICHARG").value
            reference == Get(valid_input_set, "ICHARG", default)
            icharg == Get(parameters, "ICHARG", default)
            due == IF reference.v < 10 * Scale THEN icharg.v >= 10 * Scale
                   ELSE icharg.v # reference.v
        IN /\ pc = "returned"
           /\ Len(ReasonsAbout("ICHARG")) = (IF due THEN 1 ELSE 0)
           /\ reasons = ReasonsAbout("ICHARG")

\* C28's case: against a reference ICHARG of 11 an as-run ICHARG of 12 gets
\* the ICHARG reason, which asks for 11.
C28_Witness ==
    /\ GroupOver("startup")
    /\ Get(valid_input_set, "ICHARG", PyNone) = PyInt(11)
    /\ Get(parameters, "ICHARG", PyNone) = PyInt(12)
    /\ Len(ReasonsAbout("ICHARG")) = 1
    /\ ReasonsAbout("ICHARG")[1].ref = PyInt(11)
    /\ ReasonsAbout("ICHARG")[1].op = "=="
\* The grid the i-th key of FftKeys must reach: the grid for the larger of
\* the as-run ENMAX and the reference's ENCUT, times the tolerance factor,
\* truncated to an integer.
RequiredGrid(i) ==
    LET encut == Max(parameters["ENMAX"].v, valid_input_set["ENCUT"].v)
        ng == calculate_ng(encut)[IF FftKeys[i] \in {"NGX", "NGY", "NGZ"} THEN 1 ELSE 2]
    IN (ng * task.fft_grid_tolerance) \div Scale

\* C29: the FFT group appends nothing when none of NGX, NGY, NGZ, NGXF,
\* NGYF, NGZF is in the literal INCAR; otherwise, for each of the six keys on
\* its own, it appends one reason naming the key iff the key's as-run value
\* is below the grid required for max(as-run ENMAX, reference ENCUT), scaled
\* by the tolerance factor and truncated to an integer; a key absent from
\* the as-run parameters gets no reason.
C29_GridBelowScaledRequirement ==
    GroupOver("fft") =>
        /\ pc = "returned"
        /\ (\A i \in 1..Len(FftKeys) : FftKeys[i] \notin DOMAIN incar) => reasons = <<>>
        /\ (\E i \in 1..Len(FftKeys) : FftKeys[i] \in DOMAIN incar) =>
            /\ \A i \in 1..Len(FftKeys) :
                LET key == FftKeys[i]
                    below == key \in DOMAIN parameters
                                /\ parameters[key].v < RequiredGrid(i) * Scale
                IN /\ Len(ReasonsAbout(key)) = (IF below THEN 1 ELSE 0)
                   /\ \A j \in 1..Len(ReasonsAbout(key)) :
                        ReasonsAbout(key)[j].ref = PyInt(RequiredGrid(i))
            /\ Len(reasons) = Cardinality({i \in 1..Len(FftKeys) : ReasonsAbout(FftKeys[i]) # <<>>})

\* C29's case: NGX is in the literal INCAR, the run's ENMAX of 600 exceeds
\* the reference's ENCUT of 520, and the as-run NGX of 22 is below the 25
\* required for 600 at a tolerance of 0.9 (though not below the 21 required
\* for 520): the NGX reason is appended, and asks for 25.
C29_Witness ==
    /\ GroupOver("fft")
    /\ "NGX" \in DOMAIN incar
    /\ parameters["ENMAX"] = PyInt(600)
    /\ valid_input_set["ENCUT"] = PyInt(520)
    /\ task.fft_grid_tolerance = Dec(9, 1)
    /\ Get(parameters, "NGX", PyNone) = PyInt(22)
    /\ Len(ReasonsAbout("NGX")) = 1
    /\ ReasonsAbout("NGX")[1].ref = PyInt(25)
\* The reference's LREAL as the projector group reads it: its text,
\* upper-cased (NONE for a reference without LREAL).
ReferenceLreal == upper(str(Get(valid_input_set, "LREAL", PyNone)))

\* C30: for every reference configuration, one without LREAL or with an
\* LREAL other than Auto, A or False included, the projector group completes
\* with a defined allowed set, and appends one LREAL reason iff the literal
\* INCAR's LREAL (default False, upper-cased) is outside it: FALSE, AUTO and A
\* are allowed for a reference of Auto or A, FALSE alone for a reference of
\* False; the as-run LREAL is never consulted.
C30_EveryReferenceHasLrealSet ==
    GroupOver("projector") =>
        LET cur_lreal == upper(str(Get(incar, "LREAL", PyStr("False"))))
        IN /\ pc = "returned"
           /\ Len(ReasonsAbout("LREAL")) <= 1
           /\ ReferenceLreal \in {"AUTO", "A"} =>
                (ReasonsAbout("LREAL") = <<>> <=> cur_lreal \in {"FALSE", "AUTO", "A"})
           /\ ReferenceLreal = "FALSE" => (ReasonsAbout("LREAL") = <<>> <=> cur_lreal = "FALSE")
           /\ reasons = _check_electronic_projector_params(
                            FreshStore([snapshot EXCEPT !.parameters = Del(@, "LREAL")])).reasons

====
